---- MODULE Spec2Model ----
(***************************************************************************)
(* A model of fast_filter_branch.py: the tree model (TreeEntry), the path  *)
(* regex tree transformer (_TreeTransformerBase, CachingTreeTransformer)   *)
(* and the commit rewriter (do_filter, update_refs).                       *)
(*                                                                         *)
(* Content hashes.  git names an object by a hash of its content and the    *)
(* hash is injective for every purpose of this program, so the hash of a   *)
(* tree is modelled by the entry map it names and the hash of a blob by a  *)
(* positive number.  Commits and tags live in an object store keyed by     *)
(* numbers; writing content that is already stored yields its old key.     *)
(***************************************************************************)
EXTENDS Integers, Sequences, FiniteSets, TLC

\* ------------------------------------------------------------- bounds
MaxDepth == 2
MaxRules == 2
MaxCalls == 2
\* Commits in the repository, and do_filter calls made on it.
MaxCommits == 3
MaxRuns == 2

\* Names of the model's trees: one directory name, two file names.
DirNames == {"a"}
FileNames == {"x", "y"}
Names == DirNames \cup FileNames
\* The order in which a directory's children are visited (dict order).
NameOrder == <<"a", "x", "y">>

\* ------------------------------------------------------------- TreeEntry
DirMode == "40000"
FileMode == "100644"
NoEnts == [n \in {} |-> 0]

\* TreeEntry(mode, githash, sub_entries).  dirty stands for githash is None;
\* a clean entry's hash is the pair (id, ents): id for a blob, ents for a tree.
Blob(h) == [mode |-> FileMode, dirty |-> FALSE, id |-> h, ents |-> NoEnts]
CleanDir(m) == [mode |-> DirMode, dirty |-> FALSE, id |-> 0, ents |-> m]
DirtyDir(m) == [mode |-> DirMode, dirty |-> TRUE, id |-> 0, ents |-> m]
\* Python's None, where an entry is expected.
None == [mode |-> "None", dirty |-> FALSE, id |-> 0, ents |-> NoEnts]
\* The ValueError of get_subentries on a non-directory, as a result value.
ValueErr == [mode |-> "ValueError", dirty |-> FALSE, id |-> 0, ents |-> NoEnts]

GitHash(e) == [id |-> e.id, ents |-> e.ents]
TreeOfHash(h) == [mode |-> DirMode, dirty |-> FALSE, id |-> h.id, ents |-> h.ents]
GIT_EMPTY_TREE_HASH == [id |-> 0, ents |-> NoEnts]

IsDir(e) == e.mode = DirMode

Merge(f, g) == [n \in DOMAIN f \cup DOMAIN g |-> IF n \in DOMAIN f THEN f[n] ELSE g[n]]
Without(f, n) == [k \in DOMAIN f \ {n} |-> f[k]]
With(f, n, e) == [k \in DOMAIN f \cup {n} |-> IF k = n THEN e ELSE f[k]]

\* The trees of the object store: no stored tree holds an empty directory.
RECURSIVE TreesUpTo(_)
TreesUpTo(d) ==
  LET files == {[n \in S |-> Blob(1)] : S \in SUBSET FileNames}
      dirs == IF d = 0 THEN {NoEnts}
              ELSE {NoEnts} \cup
                   UNION {{[n \in {dn} |-> CleanDir(t)] : t \in TreesUpTo(d - 1) \ {NoEnts}}
                          : dn \in DirNames}
  IN {Merge(f, g) : f \in files, g \in dirs}

Roots == {GitHash(CleanDir(t)) : t \in TreesUpTo(MaxDepth)}

\* TreeEntry.__eq__ / __ne__: same object, or both hashes known and equal.
\* Two references to one dirty object are the only equal dirty entries; the
\* model keeps no object identity, so a dirty entry equals an entry of the
\* same value (the one object it was handed back as).
EntryEq(a, b) == a = b
EntryNe(a, b) == ~EntryEq(a, b)

\* write_subentries as it would be without "Filter empty subtrees".
RECURSIVE write_subentries_unfiltered(_)
write_subentries_unfiltered(e) ==
  IF ~e.dirty THEN e
  ELSE CleanDir([n \in DOMAIN e.ents |->
                  IF e.ents[n].dirty THEN write_subentries_unfiltered(e.ents[n])
                  ELSE e.ents[n]])

\* TreeEntry.write_subentries: the entry made clean.
RECURSIVE write_subentries(_)
write_subentries(e) ==
  IF ~e.dirty THEN e
  ELSE LET kids == [n \in DOMAIN e.ents |->
                      IF e.ents[n].dirty THEN write_subentries(e.ents[n]) ELSE e.ents[n]]
           to_remove == {n \in DOMAIN kids : GitHash(kids[n]) = GIT_EMPTY_TREE_HASH}
       IN CleanDir([n \in DOMAIN kids \ to_remove |-> kids[n]])

\* The hashes write_subentries sends to write_tree (one request each).
RECURSIVE WrittenBy(_)
WrittenBy(e) ==
  IF ~e.dirty THEN {}
  ELSE {GitHash(write_subentries(e))} \cup
       UNION {WrittenBy(e.ents[n]) : n \in DOMAIN e.ents}

RECURSIVE WriteRequests(_)
WriteRequests(e) ==
  IF ~e.dirty THEN 0
  ELSE LET RECURSIVE Sum(_)
           Sum(S) == IF S = {} THEN 0
                     ELSE LET n == CHOOSE k \in S : TRUE
                          IN WriteRequests(e.ents[n]) + Sum(S \ {n})
       IN 1 + Sum(DOMAIN e.ents)

\* TreeEntry.remove_entry
remove_entry(self, name) ==
  IF ~IsDir(self) THEN ValueErr
  ELSE IF name \notin DOMAIN self.ents THEN self
  ELSE DirtyDir(Without(self.ents, name))

\* TreeEntry.add_entry
add_entry(self, name, entry) ==
  IF ~self.dirty /\ ~IsDir(self) THEN ValueErr
  ELSE DirtyDir(With(self.ents, name, entry))

\* ---- TreeEntry objects ----
\* The operations above compute on values, which is all the transformer needs:
\* it hands each new dirty tree to one holder.  CvsFixup keeps entries it was
\* handed and stores them again, so there a dirty TreeEntry is an object: the
\* entry Obj(k) names the object at address k of a heap h, and h[k] is that
\* object's _sub_entries.  Clean entries are values (nothing writes to them but
\* the lazy load of their children).
Obj(k) == [mode |-> DirMode, dirty |-> TRUE, id |-> k, ents |-> NoEnts]
IsObj(e) == e.dirty /\ e.id > 0

\* What an operation hands back: the heap and the returned entry (or ValueErr).
Ret(h, e) == [h |-> h, e |-> e]

\* TreeEntry(mode, sub_entries = r): a new dirty object.
NewEntry(h, r) == Ret(Append(h, r), Obj(Len(h) + 1))

\* self._sub_entries of a directory
SubEntries(h, self) == IF IsObj(self) THEN h[self.id] ELSE self.ents

\* TreeEntry.remove_entry on an object or a clean entry
RemoveEntry(h, self, name) ==
  IF ~IsDir(self) THEN Ret(h, ValueErr)
  ELSE IF name \notin DOMAIN SubEntries(h, self) THEN Ret(h, self)
  ELSE IF IsObj(self) THEN Ret([h EXCEPT ![self.id] = Without(@, name)], self)
  ELSE NewEntry(h, Without(self.ents, name))

\* TreeEntry.add_entry on an object or a clean entry
AddEntry(h, self, name, entry) ==
  IF IsObj(self) THEN Ret([h EXCEPT ![self.id] = With(@, name, entry)], self)
  ELSE IF ~IsDir(self) THEN Ret(h, ValueErr)
  ELSE NewEntry(h, With(self.ents, name, entry))

\* TreeEntry.get_path
RECURSIVE get_path(_, _, _)
get_path(h, self, pathsegs) ==
  IF pathsegs = <<>> THEN self
  ELSE IF ~IsDir(self) THEN None
  ELSE IF Head(pathsegs) \notin DOMAIN SubEntries(h, self) THEN None
  ELSE get_path(h, SubEntries(h, self)[Head(pathsegs)], Tail(pathsegs))

\* TreeEntry.remove_path.  `newsub is oldsub` compares objects: an object is
\* itself whatever was removed from it, a clean entry is handed back only
\* untouched.  A ValueError is raised before anything is written.
RemovedBelow(h, self, name, oldsub, r) ==
  IF r.e = ValueErr THEN Ret(h, ValueErr)
  ELSE IF r.e = oldsub THEN Ret(r.h, self)
  ELSE AddEntry(r.h, self, name, r.e)

RECURSIVE remove_path(_, _, _)
remove_path(h, self, pathsegs) ==
  IF Len(pathsegs) = 1 THEN RemoveEntry(h, self, pathsegs[1])
  ELSE IF ~IsDir(self) THEN Ret(h, ValueErr)
  ELSE IF Head(pathsegs) \notin DOMAIN SubEntries(h, self) THEN Ret(h, self)
  ELSE RemovedBelow(h, self, Head(pathsegs), SubEntries(h, self)[Head(pathsegs)],
                    remove_path(h, SubEntries(h, self)[Head(pathsegs)], Tail(pathsegs)))

\* TreeEntry.add_path
AddedBelow(h, self, name, oldsub, r) ==
  IF r.e = ValueErr THEN Ret(h, ValueErr)
  ELSE IF r.e # oldsub THEN AddEntry(r.h, self, name, r.e)
  ELSE Ret(r.h, self)

AddedNew(self, name, r) == AddEntry(r.h, self, name, r.e)

RECURSIVE add_path(_, _, _, _)
add_path(h, self, pathsegs, newentry) ==
  IF Len(pathsegs) = 1 THEN AddEntry(h, self, pathsegs[1], newentry)
  ELSE IF ~IsDir(self) THEN Ret(h, ValueErr)
  ELSE IF Head(pathsegs) \in DOMAIN SubEntries(h, self)
  THEN AddedBelow(h, self, Head(pathsegs), SubEntries(h, self)[Head(pathsegs)],
                  add_path(h, SubEntries(h, self)[Head(pathsegs)], Tail(pathsegs),
                           newentry))
  ELSE AddedNew(self, Head(pathsegs),
                add_path(Append(h, NoEnts), Obj(Len(h) + 1), Tail(pathsegs), newentry))

\* The tree an entry stands for, objects read out as dirty values.  An object
\* stored below itself is cut off at MaxNest levels.
MaxNest == 6
Nested == [mode |-> "Nested", dirty |-> TRUE, id |-> 0, ents |-> NoEnts]

RECURSIVE ViewTo(_, _, _)
ViewTo(h, e, d) ==
  IF ~IsObj(e) THEN e
  ELSE IF d = 0 THEN Nested
  ELSE DirtyDir([n \in DOMAIN h[e.id] |-> ViewTo(h, h[e.id][n], d - 1)])

View(h, e) == ViewTo(h, e, MaxNest)

\* No transform call made yet; no root handed to one.
NoRoot == [id |-> 0 - 1, ents |-> NoEnts]
NoCall == [prev |-> NoRoot, hits |-> 0, mktree |-> 0]

\* No edit made yet.
NoEdit ==
  [n |-> 0, op |-> "none", from |-> <<>>, path |-> <<>>, raised |-> FALSE,
   recv |-> None, pre |-> None]

\* ------------------------------------------------------------- state
VARIABLES
  rules,            \* file_changes: the ordered rule list, <<[pat, act], ...>>
  regexMode,        \* which regex engine the build imported (supports_partial)
  prefixSensitive,  \* do_filter's / the transformer's prefix_sensitive argument
  gtt,              \* the CachingTreeTransformer: _mapping and the _stat_ counters
  fmTrees,          \* FilterManager._cached_trees: the tree hashes it holds
  troot,            \* the root tree hash handed to transform
  tcalls,           \* transform calls made on troot
  tlog,             \* the action invocations of the last transform call
  tout,             \* the hash the last transform call returned
  tfirst,           \* the hash the first transform call returned
  treq,             \* child-channel requests issued by the last transform call
  treeref,          \* CvsFixup.treeref: the tree being edited
  tleaves,          \* the files treeref should hold: troot's, less those removed
  tfinal,           \* CvsFixup.finalize has run
  theap,            \* the dirty TreeEntry objects: theap[k] is object k's _sub_entries
  tlast,            \* the last CvsFixup edit: what it was called with and met
  tcall             \* the last transform call: the root before it, its hits and writes

treeVars == <<rules, regexMode, prefixSensitive, gtt, fmTrees, troot, tcalls,
              tlog, tout, tfirst, treq, treeref, tleaves, tfinal, theap, tlast, tcall>>

\* ------------------------------------------------------------- path regexes
\* A pathname: its segments, and whether it is written with a trailing '/'.
\* The root is '/'.
Path(segs, dir) == [segs |-> segs, dir |-> dir]
RootPath == Path(<<>>, TRUE)
\* cache_prefix = None
NoPrefix == Path(<<>>, FALSE)
SubDir(prefix, name) == Path(Append(prefix.segs, name), TRUE)
SubFile(prefix, name) == Path(Append(prefix.segs, name), FALSE)

\* The regexes of the model, by shape:
\*   exact   the literal pathname,               '/a/x'  '/a/'
\*   suffix  any prefix, then '/name' or '/name/', '.*/x'  '.*/a/'
\*   any     '.*'
PatExact(segs, dir) == [k |-> "exact", segs |-> segs, dir |-> dir]
PatSuffix(name, dir) == [k |-> "suffix", segs |-> <<name>>, dir |-> dir]
PatAny == [k |-> "any", segs |-> <<>>, dir |-> FALSE]

\* path_re.startswith('.*')
StartsWithDotStar(pat) == pat.k \in {"suffix", "any"}

IsPrefix(s, t) == Len(s) <= Len(t) /\ SubSeq(t, 1, Len(s)) = s

\* regex.compile(path_re + '$').match(pathname): the whole pathname matches.
FullMatch(pat, p) ==
  CASE pat.k = "exact" -> p.segs = pat.segs /\ p.dir = pat.dir
    [] pat.k = "suffix" -> /\ Len(p.segs) >= 1
                           /\ p.segs[Len(p.segs)] = pat.segs[1]
                           /\ p.dir = pat.dir
    [] OTHER -> TRUE

\* path_re.match(prefix, partial=True) on a directory prefix: "none" (None),
\* "partial" (m.partial) or "complete".  A match in which a greedy '.*' runs
\* into the end of the text is reported as partial by an engine that asks for
\* more text there ("regex_greedy") and as complete by one that reports the
\* complete match it has ("regex_complete"); the source fixes neither.
PartialMatch(engine, pat, prefix) ==
  CASE pat.k = "exact" ->
         IF prefix.segs = pat.segs /\ pat.dir THEN "complete"
         ELSE IF IsPrefix(prefix.segs, pat.segs) /\ prefix.segs # pat.segs THEN "partial"
         ELSE "none"
    [] OTHER ->
         IF FullMatch(pat, prefix) /\ engine = "regex_complete" THEN "complete"
         ELSE "partial"

\* supports_partial, by the module imported as regex
supports_partial(engine) == engine # "re"

\* ------------------------------------------------------------- actions
\* ACTION(fm, path, TreeEntry) -> TreeEntry or None.
\*   delete  lambda fm, path, entry: None
\*   keep    returns its argument
\*   touch   rewrites a blob's content (to blob 2); anything else is returned
ApplyAction(act, path, entry) ==
  CASE act = "delete" -> None
    [] act = "touch" -> IF entry.mode = FileMode THEN Blob(2) ELSE entry
    [] OTHER -> entry

\* The rules a caller may declare: '/' deleted, '/a/' deleted, '.*/x' deleted
\* (the shape of '.*\.zip'), and '.*' touched.
Rules == {[pat |-> PatExact(<<>>, TRUE), act |-> "delete"],
          [pat |-> PatExact(<<"a">>, TRUE), act |-> "delete"],
          [pat |-> PatSuffix("x", FALSE), act |-> "delete"],
          [pat |-> PatAny, act |-> "touch"]}
RuleLists == UNION {[1..n -> Rules] : n \in 0..MaxRules}

\* ------------------------------------------------------------- transformer
\* The state a transform call reads and writes: the transformer's _mapping and
\* _stat_ counters, the FilterManager's tree cache, and what the call did (its
\* action invocations and its requests to the reader and tree-writer children).
TState(g, trees) ==
  [mapping |-> g.mapping, hits |-> g.hits, got |-> g.got, transforms |-> g.transforms,
   fmTrees |-> trees, log |-> <<>>, cat |-> 0, mktree |-> 0]

NewTransformer == [mapping |-> {}, hits |-> 0, got |-> 0, transforms |-> 0]

\* The transformer at work: its class, and the module it imported as regex.
Caching(engine) == [caching |-> TRUE, regex |-> engine]
Uncached(engine) == [caching |-> FALSE, regex |-> engine]

\* _TreeTransformerBase.__init__: self._matchers_prefix_sensitive
matchers_prefix_sensitive == \E i \in 1..Len(rules) : ~StartsWithDotStar(rules[i].pat)

\* TreeEntry.get_subentries through FilterManager.get_tree: a request to the
\* reader child unless the tree is dirty or already cached.
GetSubentries(st, tree) ==
  IF tree.dirty \/ GitHash(tree) \in st.fmTrees THEN st
  ELSE [st EXCEPT !.cat = @ + 1, !.fmTrees = @ \cup {GitHash(tree)}]

\* tree.write_subentries(self.manager), with its write_tree requests.
WriteSubentries(st, tree) ==
  [st |-> [st EXCEPT !.mktree = @ + WriteRequests(tree),
                     !.fmTrees = @ \cup WrittenBy(tree)],
   e |-> write_subentries(tree)]

\* _TreeTransformerBase.invoke_transform_callback, res the action's result.
InvokeResult(st, pathname, oldtree, ri, res) ==
  [st |-> [st EXCEPT !.transforms = @ + 1,
                     !.log = Append(@, [path |-> pathname, rule |-> ri,
                                        inp |-> oldtree, out |-> res])],
   e |-> res]

invoke_transform_callback(st, pathname, oldtree, ri) ==
  InvokeResult(st, pathname, oldtree, ri, ApplyAction(rules[ri].act, pathname, oldtree))

\* The leaf loop of entries_transform_callback, `for t in transform_list`, from
\* its i-th rule on; r holds the state and newentry.  A None result breaks.
RECURSIVE LeafLoop(_, _, _, _)
LeafApplied(r, fullname, transform_list, i) ==
  IF r.e = None THEN r ELSE LeafLoop(r, fullname, transform_list, i + 1)

LeafLoop(r, fullname, transform_list, i) ==
  IF i > Len(transform_list) THEN r
  ELSE IF FullMatch(rules[transform_list[i]].pat, fullname)
  THEN LeafApplied(invoke_transform_callback(r.st, fullname, r.e, transform_list[i]),
                   fullname, transform_list, i)
  ELSE LeafLoop(r, fullname, transform_list, i + 1)

\* One rule of the loop over cur_transforms with partial matching
\* (supports_partial); acc holds the state, tree, sub_transforms and
\* sub_prefix_sensitive, m is the match.
PartialApplied(acc, r, ri) ==
  [acc EXCEPT !.st = r.st, !.e = r.e,
              !.sps = @ \/ ~StartsWithDotStar(rules[ri].pat)]

PartialStep(acc, prefix, ri, m) ==
  IF m = "none" THEN acc
  ELSE IF m = "partial"
  THEN [acc EXCEPT !.sub = Append(@, ri),
                   !.sps = @ \/ ~StartsWithDotStar(rules[ri].pat)]
  ELSE PartialApplied(acc, invoke_transform_callback(acc.st, prefix, acc.e, ri), ri)

RECURSIVE PartialLoop(_, _, _, _, _)
PartialLoop(engine, acc, prefix, cur, i) ==
  IF i > Len(cur) THEN acc
  ELSE PartialLoop(engine,
                   PartialStep(acc, prefix, cur[i],
                               PartialMatch(engine, rules[cur[i]].pat, prefix)),
                   prefix, cur, i + 1)

\* One rule of the loop over cur_transforms without partial matching (the re
\* module): every rule is kept for the descent.
PlainApplied(acc, r) == [acc EXCEPT !.st = r.st, !.e = r.e]

PlainStep(acc, prefix, ri) ==
  IF FullMatch(rules[ri].pat, prefix)
  THEN PlainApplied(acc, invoke_transform_callback(acc.st, prefix, acc.e, ri))
  ELSE acc

RECURSIVE PlainLoop(_, _, _, _)
PlainLoop(acc, prefix, cur, i) ==
  IF i > Len(cur) THEN acc
  ELSE PlainLoop(PlainStep(acc, prefix, cur[i]), prefix, cur, i + 1)

\* The first half of _TreeTransformerBase._transform_internal: the rules
\* applied to the directory itself, and the rules kept for the descent.
DirRules(self, st, prefix, oldtree, cur_transforms, cur_prefix_sensitive) ==
  IF supports_partial(self.regex)
  THEN PartialLoop(self.regex,
                   [st |-> st, e |-> oldtree, sub |-> <<>>, sps |-> prefixSensitive],
                   prefix, cur_transforms, 1)
  ELSE PlainLoop([st |-> st, e |-> oldtree, sub |-> cur_transforms,
                  sps |-> cur_prefix_sensitive],
                 prefix, cur_transforms, 1)

RECURSIVE transform_internal(_, _, _, _, _, _)

\* The entry of one child after its rules (a directory is descended into).
ChildResult(self, st, prefix, name, entry, transform_list, prefix_sensitive) ==
  IF entry.mode = DirMode
  THEN transform_internal(self, st, SubDir(prefix, name), entry,
                          transform_list, prefix_sensitive)
  ELSE LeafLoop([st |-> st, e |-> entry], SubFile(prefix, name), transform_list, 1)

\* The end of the loop body of entries_transform_callback; acc holds the state
\* and newtree, r the child's state and newentry.
EntryDone(acc, name, entry, r) ==
  [st |-> r.st,
   e |-> IF r.e = None THEN remove_entry(acc.e, name)
         ELSE IF EntryNe(r.e, entry) THEN add_entry(acc.e, name, r.e)
         ELSE acc.e]

EntryStep(self, acc, prefix, tree, name, transform_list, prefix_sensitive) ==
  IF name \notin DOMAIN tree.ents THEN acc
  ELSE EntryDone(acc, name, tree.ents[name],
                 ChildResult(self, acc.st, prefix, name, tree.ents[name],
                             transform_list, prefix_sensitive))

\* The loop of entries_transform_callback over tree.get_subentries().items(),
\* todo the names still to visit.
RECURSIVE EntriesLoop(_, _, _, _, _, _, _)
EntriesLoop(self, acc, prefix, tree, todo, transform_list, prefix_sensitive) ==
  IF todo = <<>> THEN acc
  ELSE EntriesLoop(self,
                   EntryStep(self, acc, prefix, tree, Head(todo), transform_list,
                             prefix_sensitive),
                   prefix, tree, Tail(todo), transform_list, prefix_sensitive)

\* _TreeTransformerBase.entries_transform_callback
entries_transform_callback(self, st, prefix, tree, transform_list, prefix_sensitive) ==
  EntriesLoop(self, [st |-> GetSubentries(st, tree), e |-> tree], prefix, tree,
              NameOrder, transform_list, prefix_sensitive)

\* The second half of _TreeTransformerBase._transform_internal, r the first's.
Descend(self, r, prefix) ==
  IF r.sub # <<>> /\ r.e # None
  THEN entries_transform_callback(self, [r.st EXCEPT !.got = @ + 1],
                                  prefix, r.e, r.sub, r.sps)
  ELSE [st |-> r.st, e |-> r.e]

\* _TreeTransformerBase._transform_internal
base_transform_internal(self, st, prefix, oldtree, cur_transforms, cur_prefix_sensitive) ==
  Descend(self,
          DirRules(self, st, prefix, oldtree, cur_transforms, cur_prefix_sensitive),
          prefix)

\* The lookup as it would be with None for its default: a cached deletion
\* reads as a miss.
MappingGetNoneDefault(mapping, cache_prefix, githash) ==
  {m \in mapping : m.prefix = cache_prefix /\ m.hash = githash /\ m.out # None}

\* self._mapping.get((cache_prefix, oldtree.githash), UNSET)
MappingGet(mapping, cache_prefix, githash) ==
  {m \in mapping : m.prefix = cache_prefix /\ m.hash = githash}

\* The assignment left out: nothing is ever cached.
MappingSetNothing(w, cache_prefix, githash) == w

\* self._mapping[(cache_prefix, oldtree.githash)] = tree
MappingSet(w, cache_prefix, githash) ==
  [st |-> [w.st EXCEPT !.mapping =
             {m \in @ : ~(m.prefix = cache_prefix /\ m.hash = githash)}
             \cup {[prefix |-> cache_prefix, hash |-> githash, out |-> w.e]}],
   e |-> w.e]

\* "Make immutable": tree.write_subentries(self.manager) unless tree is None.
MakeImmutable(r) ==
  IF r.e = None THEN r ELSE WriteSubentries(r.st, r.e)

\* CachingTreeTransformer._transform_internal after the cache lookup.
CachedOr(self, st, prefix, oldtree, cur_transforms, cur_ps, cache_prefix, found) ==
  IF found # {}
  THEN [st |-> [st EXCEPT !.hits = @ + 1], e |-> (CHOOSE m \in found : TRUE).out]
  ELSE MappingSet(MakeImmutable(base_transform_internal(self, st, prefix, oldtree,
                                                        cur_transforms, cur_ps)),
                  cache_prefix, GitHash(oldtree))

\* The key as it would be were the prefix always part of it.
CachePrefixAlways(prefix, cur_prefix_sensitive) == prefix

CachePrefix(prefix, cur_prefix_sensitive) ==
  IF cur_prefix_sensitive THEN prefix ELSE NoPrefix

\* CachingTreeTransformer._transform_internal (caching), or the base class's.
transform_internal(self, st, prefix, oldtree, cur_transforms, cur_prefix_sensitive) ==
  IF ~self.caching
  THEN base_transform_internal(self, st, prefix, oldtree, cur_transforms,
                               cur_prefix_sensitive)
  ELSE CachedOr(self, st, prefix, oldtree, cur_transforms, cur_prefix_sensitive,
                CachePrefix(prefix, cur_prefix_sensitive),
                MappingGet(st.mapping, CachePrefix(prefix, cur_prefix_sensitive),
                           GitHash(oldtree)))

\* The end of _TreeTransformerBase.transform, w the written finaltree.
TransformResult(w) ==
  [st |-> w.st,
   hash |-> IF w.e = None THEN GIT_EMPTY_TREE_HASH ELSE GitHash(w.e)]

\* _TreeTransformerBase.transform
transform(self, st, oldtreehash) ==
  TransformResult(MakeImmutable(
    transform_internal(self, st, RootPath, TreeOfHash(oldtreehash),
                       [i \in 1..Len(rules) |-> i],
                       matchers_prefix_sensitive \/ prefixSensitive)))

\* ------------------------------------------------------------- tree edits
\* The files of a tree as (path, entry) pairs, empty directories left out.
RECURSIVE Leaves(_, _)
Leaves(e, at) ==
  IF ~IsDir(e) THEN {[path |-> at, e |-> e]}
  ELSE UNION {Leaves(e.ents[n], Append(at, n)) : n \in DOMAIN e.ents}

\* The canonical tree holding exactly the files L (paths relative to `at`).
RECURSIVE Build(_, _)
Build(L, at) ==
  LET d == Len(at) + 1
      here == {l.path[d] : l \in L}
  IN CleanDir([n \in here |->
       IF \E l \in L : l.path = Append(at, n)
       THEN (CHOOSE l \in L : l.path = Append(at, n)).e
       ELSE Build({l \in L : l.path[d] = n}, Append(at, n))])

\* The paths an edit may name: directory names and then any name, or a path
\* that runs through a file name.
EditPaths ==
  LET dirs == UNION {[1..n -> DirNames] : n \in 0..MaxDepth}
  IN {Append(d, n) : d \in dirs, n \in Names}
     \cup {d \o <<f, n>> : d \in {<<>>} \cup [1..1 -> DirNames], f \in FileNames, n \in {"x"}}

RegexModes == {"re", "regex_greedy", "regex_complete"}

\* ------------------------------------------------------------- do_filter
VARIABLES
  msg_filter,       \* do_filter's msg_filter argument: "none" or what it does
  commit_filter,    \* do_filter's commit_filter argument
  tag_filter,       \* do_filter's tag_filter argument
  backup_prefix,    \* do_filter's backup_prefix argument ("" for None)
  revmap_filename,  \* do_filter's revmap_filename argument ("" for None)
  objects,          \* the repository's commits: objects[h] is the commit of hash h
  tagobjs,          \* the repository's tag objects
  refs,             \* the repository's refs: ref name -> [kind, h]
  revfile,          \* the file revmap_filename
  tmpfile,          \* the file revmap_filename + '.tmp'
  revmap_out,       \* the file object do_filter writes it through: what it still buffers
  run,              \* do_filter calls begun
  pc,               \* where the current do_filter call stands
  raised,           \* where the exception that ended the call was raised
  revlist,          \* rev-list --reverse --topo-order of the refs
  progress,         \* revs of revlist the loop has taken
  revmap,           \* old hash -> new hash or mark
  next_mark,        \* FastImportStream.next_mark
  marks,            \* the import channel's mark table: marks[k] is :k's hash
  cmds,             \* the calls made on the import channel, in order
  proc,             \* what the loop did with each rev it took
  refidx,           \* lines of for-each-ref that update_refs has taken
  refs0,            \* refs as they were when the call began
  file0,            \* the file revmap_filename as it was when the call began
  notified          \* the calls of updatefunc: the hash handed over, the channel's length

filterVars == <<msg_filter, commit_filter, tag_filter, backup_prefix, revmap_filename,
                objects, tagobjs, refs, revfile, tmpfile, revmap_out, run, pc, raised,
                revlist,
                progress, revmap, next_mark, marks, cmds, proc, refidx, refs0, file0,
                notified>>

\* The gateway on its own: FilterManager over cat-file and fast-import, and a
\* caller that keeps and changes the records it is handed.
VARIABLES
  catfile,          \* what git cat-file --batch answers: hash -> [kind, response]
  heap,             \* the Commit objects alive in the process, by address
  cached_commits,   \* FilterManager._cached_commits: key -> address, 0 if absent
  fi_next_mark,     \* FastImportStream.next_mark of this gateway
  held,             \* addresses of the Commit objects the caller holds
  lastret,          \* what the caller's latest write returned
  gwlog,            \* the gateway calls made, in order, with their outcomes
  pipes,            \* per child, what it wrote to its stdout and was not read yet
  reads,            \* the request/response exchanges with the children, in order
  procs,            \* per child: its stdin, whether it was waited for, its returncode
  fmstate           \* "open", "hung" (blocked in a read), "closed", "raised"

chanVars == <<pipes, reads, procs, fmstate>>

gwVars == <<catfile, heap, cached_commits, fi_next_mark, held, lastret, gwlog, chanVars>>

vars == <<treeVars, filterVars, gwVars>>

\* A message: how many times the marker was prepended, and whether it ends
\* in a PGP signature block.
Msg(n, sig) == [n |-> n, sig |-> sig]

\* A mark ':k' is -k; a hash is a positive number.
Mark(k) == 0 - k
IsMark(h) == h < 0

\* The trees commits hold: x and y, or y alone.
TreeXY == GitHash(CleanDir([n \in {"x", "y"} |-> Blob(1)]))
TreeY == GitHash(CleanDir([n \in {"y"} |-> Blob(1)]))

\* Ordered parent lists of at most two distinct earlier commits.
ParentLists(c) ==
  {<<>>} \cup {<<p>> : p \in 1..(c - 1)}
         \cup ({<<p, q>> : p \in 1..(c - 1), q \in 1..(c - 1)}
                 \ {<<p, p>> : p \in 1..(c - 1)})

OrigCommit(c, t, ps) ==
  [treehash |-> t, parents |-> ps, author |-> "A", author_date |-> 0,
   committer |-> "A", committer_date |-> c, msg |-> Msg(0, FALSE)]

\* Which commits hold a file named x: none, the first, the last or all.
TreePatterns == {"none", "first", "last", "all"}

TreeFor(pat, c, n) ==
  IF pat = "all" \/ (pat = "first" /\ c = 1) \/ (pat = "last" /\ c = n)
  THEN TreeXY ELSE TreeY

RECURSIVE Repos(_, _, _)
Repos(n, pat, last) ==
  IF n = 0 THEN {<<>>}
  ELSE {Append(r, OrigCommit(n, TreeFor(pat, n, last), ps)) :
          r \in Repos(n - 1, pat, last), ps \in ParentLists(n)}

\* Commit.copy
CommitCopy(c) == c

\* Commit.__eq__ were it to leave msg out.
CommitEqNoMsg(a, b) ==
  /\ a.treehash = b.treehash
  /\ a.parents = b.parents
  /\ a.author = b.author
  /\ a.author_date = b.author_date
  /\ a.committer = b.committer
  /\ a.committer_date = b.committer_date

\* Commit.__eq__
CommitEq(a, b) ==
  /\ a.treehash = b.treehash
  /\ a.parents = b.parents
  /\ a.author = b.author
  /\ a.author_date = b.author_date
  /\ a.committer = b.committer
  /\ a.committer_date = b.committer_date
  /\ a.msg = b.msg

\* The write decision were it taken on identity: a copy is never its original.
CommitIsNot(a, b) == TRUE

\* Commit.__ne__
CommitNe(a, b) == ~CommitEq(a, b)

\* Tag.__eq__
TagEq(a, b) ==
  /\ a.object_hash = b.object_hash
  /\ a.object_type = b.object_type
  /\ a.name = b.name
  /\ a.tagger = b.tagger
  /\ a.tagger_date = b.tagger_date
  /\ a.msg = b.msg

\* Tag.__ne__
TagNe(a, b) == ~TagEq(a, b)

\* Ref names; backup_prefix + '/' + refname is the name under the prefix.
RefName(prefix, name) == [prefix |-> prefix, name |-> name]
MainRef == RefName("", "refs/heads/main")
TagRef == RefName("", "refs/tags/v1")
reflist == <<MainRef, TagRef>>
BackupRef(prefix, ref) == RefName(prefix, ref.name)
AllRefs == {MainRef, TagRef, BackupRef("refs/original", MainRef),
            BackupRef("refs/original", TagRef)}

NoRef == [kind |-> "none", h |-> 0]
CommitRefTo(h) == [kind |-> "commit", h |-> h]
TagRefTo(h) == [kind |-> "tag", h |-> h]

TagObj(h, type, name, sig) ==
  [object_hash |-> h, object_type |-> type, name |-> name, tagger |-> "A",
   tagger_date |-> 0, msg |-> Msg(0, sig)]

\* What refs/tags/v1 is: a lightweight tag, an annotated tag (plain or
\* signed), an annotated tag of a tree, or a tag object named otherwise.
TagKinds == {"light", "plain", "signed", "tree", "misnamed"}

InitTag(kind, t) ==
  CASE kind = "plain" -> TagObj(t, "commit", "v1", FALSE)
    [] kind = "signed" -> TagObj(t, "commit", "v1", TRUE)
    [] kind = "tree" -> TagObj(t, "tree", "v1", FALSE)
    [] kind = "misnamed" -> TagObj(t, "commit", "v0", FALSE)

NoFile == [exists |-> FALSE, map |-> NoEnts]
File(m) == [exists |-> TRUE, map |-> m]

\* The commits a set of commits reaches through parent links.
RECURSIVE Closure(_, _)
Closure(objs, S) ==
  LET S2 == S \cup UNION {{objs[h].parents[i] : i \in 1..Len(objs[h].parents)} : h \in S}
  IN IF S2 = S THEN S ELSE Closure(objs, S2)

\* The commit a ref peels to, if any.
RefCommits(r, tags) ==
  IF r.kind = "commit" THEN {r.h}
  ELSE IF r.kind = "tag" /\ tags[r.h].object_type = "commit" THEN {tags[r.h].object_hash}
  ELSE {}

Min(S) == CHOOSE m \in S : \A k \in S : m <= k
Max(S) == CHOOSE m \in S : \A k \in S : k <= m

\* Children first: the list as it would be without --reverse.
RECURSIVE TopoOrderUnreversed(_)
TopoOrderUnreversed(S) ==
  IF S = {} THEN <<>> ELSE <<Max(S)>> \o TopoOrderUnreversed(S \ {Max(S)})

\* git rev-list --reverse --topo-order: parents before children.  A commit's
\* hash is above its parents' here, so ascending order is such a list.
RECURSIVE TopoOrder(_)
TopoOrder(S) ==
  IF S = {} THEN <<>> ELSE <<Min(S)>> \o TopoOrder(S \ {Min(S)})

RevList(objs, rs, tags) ==
  TopoOrder(Closure(objs, UNION {RefCommits(rs[reflist[i]], tags) : i \in 1..Len(reflist)}))

MsgFilters == {"none", "prepend", "ensure"}
CommitFilters == {"none", "ident", "author", "alias", "pair"}
TagFilters == {"none", "retag"}

\* msg_filter(msg): a filter that prepends its marker to every message, or
\* one that prepends it where the message does not start with it.
ApplyMsgFilter(msg) ==
  IF msg_filter = "prepend" THEN [msg EXCEPT !.n = @ + 1]
  ELSE [msg EXCEPT !.n = IF @ = 0 THEN 1 ELSE @]

\* [p for p in commit.parents if p in revmap], mapped: unmapped parents lost.
RemapOnlyMapped(rm, ps) ==
  LET kept == SelectSeq(ps, LAMBDA p : p \in DOMAIN rm)
  IN [i \in 1..Len(kept) |-> rm[kept[i]]]

\* [revmap.get(p, p) for p in commit.parents]
RemapParents(rm, ps) ==
  [i \in 1..Len(ps) |-> IF ps[i] \in DOMAIN rm THEN rm[ps[i]] ELSE ps[i]]

\* commit_filter(fm, rev, commit, oldparents): a Commit, a string naming an
\* existing commit, or a (Commit, updatefunc) pair.
FilterResult(kind, commit, str, upd) ==
  [kind |-> kind, commit |-> commit, str |-> str, upd |-> upd]

CommitFilterCall(rev, commit, oldparents) ==
  CASE commit_filter = "ident" -> FilterResult("commit", commit, 0, FALSE)
    [] commit_filter = "author" ->
         FilterResult("commit", [commit EXCEPT !.author = "B"], 0, FALSE)
    [] commit_filter = "alias" ->
         FilterResult("str", commit,
                      IF commit.parents # <<>> THEN commit.parents[1] ELSE rev, FALSE)
    [] commit_filter = "pair" ->
         FilterResult("tuple", [commit EXCEPT !.committer = "B"], 0, TRUE)

\* tag_filter(fm, tagobj)
TagFilterCall(tagobj) == [tagobj EXCEPT !.tagger = "B"]

\* 'refs/tags/' + tagobj.name
TagRefName(name) ==
  RefName("", CASE name = "v1" -> "refs/tags/v1" [] name = "v0" -> "refs/tags/v0")

\* FastImportStream.tmp_refname
tmp_refname == RefName("", "refs/xxxx-fast-filter-tmp-ref")

\* The commands of the import channel and the calls that issue them.
Cmd(op, ref, to, obj, rev, at) ==
  [op |-> op, ref |-> ref, to |-> to, obj |-> obj, rev |-> rev, at |-> at]
NoObj == OrigCommit(0, GIT_EMPTY_TREE_HASH, <<>>)

\* fm.write_commit(commit), the commit written under mark; rev and the
\* revmap it was remapped with are kept beside it.
CommitCmd(mark, commit, rev, at) ==
  Cmd("commit", tmp_refname, CommitRefTo(mark), commit, rev, at)
\* fm.reset_ref(ref, githash)
ResetCmd(ref, to) == Cmd("reset", ref, to, NoObj, 0, NoEnts)
\* fm.write_tag(tag)
TagCmd(tag) == Cmd("tag", TagRefName(tag.name), NoRef, tag, 0, NoEnts)
\* FastImportStream.close: 'done'
DoneCmd == Cmd("done", tmp_refname, NoRef, NoObj, 0, NoEnts)

\* The mark table's answer: FilterManager.get_mark.
get_mark(mk, h) == IF IsMark(h) THEN mk[0 - h] ELSE h

\* The commit object the channel stores: marks among its parents resolved.
StoredCommit(mk, c) ==
  [c EXCEPT !.parents = [i \in 1..Len(c.parents) |-> get_mark(mk, c.parents[i])]]

\* Objects are content-addressed: equal content, equal hash.
HashOf(objs, c) ==
  IF \E h \in 1..Len(objs) : objs[h] = c
  THEN CHOOSE h \in 1..Len(objs) : objs[h] = c
  ELSE Len(objs) + 1

Store(objs, c) == IF HashOf(objs, c) = Len(objs) + 1 THEN Append(objs, c) ELSE objs

\* The remapped parents were they stored into the list commit.parents names
\* (commit.parents[:] = ...).
RemapInPlace(old, fresh) == old

\* commit.parents = [...]: the name is bound to a list of its own.
RemapInto(old, fresh) == fresh

\* What a commit filter does to the list commit.parents in place: the one
\* that answers with a string keeps the first parent only.
FilterMutation(ps) ==
  IF commit_filter = "alias" /\ Len(ps) > 1 THEN <<ps[1]>> ELSE ps

\* What the loop body makes of rev before the write decision: oldcommit, and
\* the filters' result on the copy.  The lists alive in one turn are kept by
\* address: 1 is the list copy() made, which oldparents names.
Filtered(rev, treehash) ==
  LET oldcommit == objects[rev]
      copy == CommitCopy(oldcommit)
      oldparents == 1
      parents == RemapInto(oldparents, 2)
      lists == [<<copy.parents, <<>>>> EXCEPT ![parents] = RemapParents(revmap, copy.parents)]
      commit == [copy EXCEPT
                   !.parents = lists[parents],
                   !.msg = IF msg_filter # "none" THEN ApplyMsgFilter(@) ELSE @,
                   !.treehash = treehash]
      after == [lists EXCEPT ![parents] = FilterMutation(@)]
  IN [old |-> oldcommit,
      res |-> IF commit_filter # "none"
              THEN CommitFilterCall(rev, commit, lists[oldparents])
              ELSE FilterResult("commit", commit, 0, FALSE),
      oldparents |-> [passed |-> lists[oldparents], after |-> after[oldparents],
                      own |-> oldparents # parents]]

\* commit.treehash = gtt.transform(commit.treehash), when gtt is not None
TransformTree(h) ==
  IF rules # <<>> THEN transform(Caching(regexMode), TState(gtt, fmTrees), h)
  ELSE [st |-> TState(gtt, fmTrees), hash |-> h]

\* What the loop recorded for a rev.
Took(rev, kind, old, final, wrote, str, oldparents) ==
  [rev |-> rev, kind |-> kind, old |-> old, final |-> final, wrote |-> wrote, str |-> str,
   oldparents |-> oldparents]

\* The loop's commands for a commit it writes, were it to move the branch
\* as it goes.
LoopCmdsResetting(mark, commit, rev) ==
  <<CommitCmd(mark, commit, rev, revmap), ResetCmd(MainRef, CommitRefTo(mark))>>

\* The loop's commands for a commit it writes: fm.write_commit(commit).
LoopCmds(mark, commit, rev) == <<CommitCmd(mark, commit, rev, revmap)>>

\* update_refs were it to keep no backup.
BackupSkipped(refname, r) == <<>>

\* fm.reset_ref(backup_prefix + '/' + refname, githash), if backup_prefix
BackupCmds(refname, r) ==
  IF backup_prefix # "" THEN <<ResetCmd(BackupRef(backup_prefix, refname), r)>> ELSE <<>>

\* update_refs were it to leave the signature in the message.
KeepSignature(tagobj) == tagobj

\* tagobj.msg = tagobj.msg.split('\n-----BEGIN PGP SIGNATURE-----\n')[0], where
\* the message holds the sentinel.
StripSignature(tagobj) == [tagobj EXCEPT !.msg.sig = FALSE]

\* The comparison snapshot were it taken before the signature is cut.
SnapshotSigned(tagobj, stripped) == tagobj

\* oldtagobj = tagobj.copy(), taken after the signature is cut
Snapshot(tagobj, stripped) == stripped

\* update_refs on a tag object whose name and type passed the checks.
TagCmds(refname, r, parsed) ==
  LET stripped == StripSignature(parsed)
      oldtagobj == Snapshot(parsed, stripped)
      mapped == IF stripped.object_hash \in DOMAIN revmap
                THEN [stripped EXCEPT !.object_hash = revmap[@]] ELSE stripped
      msged == IF msg_filter # "none"
               THEN [mapped EXCEPT !.msg = ApplyMsgFilter(@)] ELSE mapped
      tagobj == IF tag_filter # "none" THEN TagFilterCall(msged) ELSE msged
  IN IF TagNe(tagobj, oldtagobj) THEN BackupCmds(refname, r) \o <<TagCmd(tagobj)>>
     ELSE <<>>

\* update_refs on one line of for-each-ref: the commands it issues.
RefCmds(refname, r) ==
  IF r.kind = "commit"
  THEN IF r.h \in DOMAIN revmap
       THEN BackupCmds(refname, r) \o <<ResetCmd(refname, CommitRefTo(revmap[r.h]))>>
       ELSE <<>>
  ELSE IF r.kind = "tag"
  THEN LET tagobj == tagobjs[r.h]
       IN IF TagRefName(tagobj.name) # refname THEN <<>>
          ELSE IF tagobj.object_type # "commit" THEN <<>>
          ELSE TagCmds(refname, r, tagobj)
  ELSE <<>>

\* The channel at 'done': resets and tags take effect, in order.
RECURSIVE ApplyCmds(_, _, _, _)
ApplyCmds(cs, i, mk, st) ==
  IF i > Len(cs) THEN st
  ELSE LET c == cs[i]
       IN IF c.op = "reset"
          THEN ApplyCmds(cs, i + 1, mk,
                 [st EXCEPT !.refs[c.ref] =
                    IF c.to.kind = "commit" THEN CommitRefTo(get_mark(mk, c.to.h)) ELSE c.to])
          ELSE IF c.op = "tag"
          THEN LET t == [c.obj EXCEPT !.object_hash = get_mark(mk, @)]
               IN ApplyCmds(cs, i + 1, mk,
                    [refs |-> [st.refs EXCEPT ![TagRefName(t.name)] = TagRefTo(HashOf(st.tags, t))],
                     tags |-> Store(st.tags, t)])
          ELSE ApplyCmds(cs, i + 1, mk, st)

\* The revmap as do_filter would start with were it not to read the file.
LoadNothing(name, file) == NoEnts

\* dict(l.strip().split(' ') for l in open(revmap_filename)) if the file
\* is named and exists, else {}
LoadRevmap(name, file) == IF name # "" /\ file.exists THEN file.map ELSE NoEnts

\* ---- The gateway: CatFileInput, FastImportStream, FilterManager ----

MaxOps == 4

\* One header line of an object: its first word and what follows, a name or
\* word in str, a hash or the date after '> ' in num.
Header(kind, str, num) == [kind |-> kind, str |-> str, num |-> num]

\* The bytes of an object: whether they hold '\n\n', the header lines before
\* it and the message after it.
Response(sep, headers, msg) == [sep |-> sep, headers |-> headers, msg |-> msg]

Object(kind, response) == [kind |-> kind, response |-> response]

CommitText(ps, extra) ==
  Response(TRUE,
           <<Header("tree", "", TreeY)>>
             \o [i \in 1..Len(ps) |-> Header("parent", "", ps[i])]
             \o <<Header("author", "A", 0), Header("committer", "A", 1)>> \o extra,
           Msg(0, FALSE))

TagText(h) ==
  Response(TRUE,
           <<Header("object", "", h), Header("type", "commit", 0), Header("tag", "v1", 0),
             Header("tagger", "A", 0)>>,
           Msg(0, FALSE))

\* Bytes with no blank line in them: a tree's entries, a binary file.
Binary == Response(FALSE, <<>>, Msg(0, FALSE))

\* The objects hash 2 may be: a commit (plain, signed, or with an encoding
\* header), a tag, a tree, or a blob whose bytes are any of these texts.
ObjectChoices ==
  {Object("commit", CommitText(<<1>>, <<>>)),
   Object("commit", CommitText(<<1>>, <<Header("gpgsig", "sig", 0), Header("cont", "sig", 0)>>)),
   Object("commit", CommitText(<<1>>, <<Header("encoding", "latin1", 0)>>)),
   Object("commit", CommitText(<<1>>, <<Header("encoding", "latin1", 0),
                                        Header("gpgsig", "sig", 0), Header("cont", "sig", 0)>>)),
   Object("tag", TagText(1)),
   Object("tree", Binary),
   Object("blob", Binary),
   Object("blob", CommitText(<<1>>, <<>>)),
   Object("blob", TagText(1)),
   Object("blob", Response(TRUE, <<>>, Msg(0, FALSE)))}

\* CatFileInput._parse_object: (kind, contents), or an exception where
\* cat-file answers '<name> missing'.
parse_object(cf, githash) ==
  IF githash \in 1..Len(cf)
  THEN [raised |-> FALSE, kind |-> cf[githash].kind, response |-> cf[githash].response]
  ELSE [raised |-> TRUE, kind |-> "", response |-> Binary]

\* "if kind != want: Exception(...)" builds an exception and drops it.
KindCheckRaises(kind, want) == FALSE

\* Commit(): treehash is None.
NewCommit ==
  [treehash |-> [id |-> 0 - 1, ents |-> NoEnts], parents |-> <<>>, author |-> "", author_date |-> 0,
   committer |-> "", committer_date |-> 0, msg |-> Msg(0, FALSE)]

\* Tag()
NewTag ==
  [object_hash |-> 0, object_type |-> "", name |-> "", tagger |-> "",
   tagger_date |-> 0, msg |-> Msg(0, FALSE)]

\* An outcome: an exception, or a value.
Raised == [raised |-> TRUE, commit |-> NewCommit, tag |-> NewTag]
Returned(commit, tag) == [raised |-> FALSE, commit |-> commit, tag |-> tag]

\* The header loop of parse_commit; "encoding = None" is run at every header
\* that is not a continuation line.
RECURSIVE CommitHeaders(_, _, _, _)
CommitHeaders(hs, i, commit, encoding) ==
  IF i > Len(hs) THEN [raised |-> FALSE, commit |-> commit, encoding |-> encoding]
  ELSE LET h == hs[i]
       IN CASE h.kind = "cont" -> CommitHeaders(hs, i + 1, commit, encoding)
            [] h.kind = "tree" ->
                 CommitHeaders(hs, i + 1, [commit EXCEPT !.treehash = h.num], "")
            [] h.kind = "parent" ->
                 CommitHeaders(hs, i + 1, [commit EXCEPT !.parents = Append(@, h.num)], "")
            [] h.kind = "author" ->
                 CommitHeaders(hs, i + 1,
                               [commit EXCEPT !.author = h.str, !.author_date = h.num], "")
            [] h.kind = "committer" ->
                 CommitHeaders(hs, i + 1,
                               [commit EXCEPT !.committer = h.str, !.committer_date = h.num],
                               "")
            [] h.kind = "encoding" -> CommitHeaders(hs, i + 1, commit, h.str)
            [] h.kind = "gpgsig" -> CommitHeaders(hs, i + 1, commit, "")
            [] OTHER -> [raised |-> TRUE, commit |-> commit, encoding |-> ""]

\* commit.msg.decode(encoding, error='replace'): decode takes no keyword
\* argument named error, and the call raises TypeError.
Decoded(commit, encoding) == Raised

\* CatFileInput.parse_commit
parse_commit(cf, githash) ==
  LET o == parse_object(cf, githash)
  IN IF o.raised THEN Raised
     ELSE IF o.kind # "commit" /\ KindCheckRaises(o.kind, "commit") THEN Raised
     ELSE IF ~o.response.sep \/ o.response.headers = <<>> THEN Raised
     ELSE LET r == CommitHeaders(o.response.headers, 1,
                                 [NewCommit EXCEPT !.msg = o.response.msg], "")
          IN IF r.raised THEN Raised
             ELSE IF r.encoding # "" THEN Decoded(r.commit, r.encoding)
             ELSE Returned(r.commit, NewTag)

\* The header loop of parse_tag.
RECURSIVE TagHeaders(_, _, _)
TagHeaders(hs, i, tag) ==
  IF i > Len(hs) THEN [raised |-> FALSE, tag |-> tag]
  ELSE LET h == hs[i]
       IN CASE h.kind = "object" -> TagHeaders(hs, i + 1, [tag EXCEPT !.object_hash = h.num])
            [] h.kind = "type" -> TagHeaders(hs, i + 1, [tag EXCEPT !.object_type = h.str])
            [] h.kind = "tag" -> TagHeaders(hs, i + 1, [tag EXCEPT !.name = h.str])
            [] h.kind = "tagger" ->
                 TagHeaders(hs, i + 1, [tag EXCEPT !.tagger = h.str, !.tagger_date = h.num])
            [] OTHER -> [raised |-> TRUE, tag |-> tag]

\* CatFileInput.parse_tag
parse_tag(cf, githash) ==
  LET o == parse_object(cf, githash)
  IN IF o.raised THEN Raised
     ELSE IF o.kind # "tag" /\ KindCheckRaises(o.kind, "tag") THEN Raised
     ELSE IF ~o.response.sep \/ o.response.headers = <<>> THEN Raised
     ELSE LET r == TagHeaders(o.response.headers, 1, [NewTag EXCEPT !.msg = o.response.msg])
          IN IF r.raised THEN Raised ELSE Returned(NewCommit, r.tag)

\* The keys a caller may read with: the hashes of the repository, the hash of
\* a commit the repository does not hold (a gitlink to a lost commit), the
\* marks and None.
NoneKey == 0
MissingHash == 3
Keys == (0 - MaxOps)..MissingHash

\* ---- The pipes to and from the children ----

\* A piece of a child's output: the request it answers, the name asked for,
\* and which piece it is. "header" is '<hash> <kind> <size>\n', "body" the
\* size bytes after it, "nl" the newline closing them, "missing" the line
\* '<hash> missing\n' for a 40-digit hash, "short" the same line for a name
\* of fewer than 40 characters (a mark, 'None'), "line" a one-line answer.
Chunk(req, key, part) == [req |-> req, key |-> key, part |-> part]

\* git cat-file --batch answering one line of its input.
CatFileAnswer(cf, githash, req) ==
  IF githash \in 1..Len(cf)
  THEN <<Chunk(req, githash, "header"), Chunk(req, githash, "body"), Chunk(req, githash, "nl")>>
  ELSE IF githash > 0 THEN <<Chunk(req, githash, "missing")>>
  ELSE <<Chunk(req, githash, "short")>>

\* git mktree --batch and git fast-import get-mark answer with one line.
LineAnswer(key, req) == <<Chunk(req, key, "line")>>

\* What a read left in the pipe, what it took, and how it ended: "read",
\* "raise", or "hang" where it waits for bytes that never come.
ReadResult(pipe, got, outcome) == [pipe |-> pipe, got |-> got, outcome |-> outcome]

\* A header read that takes nothing out of the pipe.
HeaderPeeked(pipe) ==
  IF pipe = <<>> THEN ReadResult(pipe, <<>>, "hang")
  ELSE ReadResult(pipe, <<Head(pipe)>>, "read")

\* stdout.read(40) + stdout.readline(): a line of 40 bytes or more is taken
\* whole; after a shorter one read(40) goes on into the bytes that follow.
ReadHeader(pipe) ==
  IF pipe = <<>> THEN ReadResult(pipe, <<>>, "hang")
  ELSE IF Head(pipe).part = "short"
       THEN IF Len(pipe) = 1 THEN ReadResult(<<>>, pipe, "hang")
            ELSE ReadResult(Tail(Tail(pipe)), SubSeq(pipe, 1, 2), "raise")
       ELSE ReadResult(Tail(pipe), <<Head(pipe)>>, "read")

\* stdout.read(int(header_parts[2]))
ReadBody(pipe) ==
  IF pipe = <<>> THEN ReadResult(pipe, <<>>, "hang")
  ELSE ReadResult(Tail(pipe), <<Head(pipe)>>, "read")

\* "if self.process.stdout.read(1) != '\n': raise"
ReadNewline(pipe) ==
  IF pipe = <<>> THEN ReadResult(pipe, <<>>, "hang")
  ELSE ReadResult(Tail(pipe), <<Head(pipe)>>, IF Head(pipe).part = "nl" THEN "read" ELSE "raise")

\* stdout.readline() of get_mark and write_tree
ReadLine(pipe) ==
  IF pipe = <<>> THEN ReadResult(pipe, <<>>, "hang")
  ELSE ReadResult(Tail(pipe), <<Head(pipe)>>, "read")

\* The reads of _parse_object after the header.
ReadContents(h) ==
  LET b == ReadBody(h.pipe)
  IN IF b.outcome = "hang" THEN ReadResult(b.pipe, h.got \o b.got, "hang")
     ELSE LET n == ReadNewline(b.pipe)
          IN ReadResult(n.pipe, h.got \o b.got \o n.got, n.outcome)

\* The reads of CatFileInput._parse_object: the header, "len(header_parts) !=
\* 3" raising for anything but a header line, then the contents.
ReadObject(pipe) ==
  LET h == ReadHeader(pipe)
  IN IF h.outcome # "read" THEN h
     ELSE IF h.got[1].part # "header" THEN ReadResult(h.pipe, h.got, "raise")
     ELSE ReadContents(h)

\* One exchange: the channel, the number of the request and the name it asks
\* for, what was in the pipe when the request was written, what was read and
\* left, and how the read ended.
Exchange(ch, req, key, stale, r) ==
  [ch |-> ch, req |-> req, key |-> key, stale |-> stale, got |-> r.got, left |-> r.pipe,
   outcome |-> r.outcome]

\* subprocess.Popen(..., stdin=PIPE, stdout=PIPE)
Popen == [stdin |-> "open", waited |-> FALSE, returncode |-> 0 - 1, sent |-> <<>>]

NoPipes == [c \in {"cat", "mktree", "import"} |-> <<>>]
NewProcs == [c \in {"cat", "mktree", "import"} |-> Popen]

\* A request written to a child and the read of its answer.
Asked(ch, key, r) ==
  /\ pipes' = [pipes EXCEPT ![ch] = r.pipe]
  /\ reads' = Append(reads, Exchange(ch, Len(reads) + 1, key, pipes[ch], r))
  /\ fmstate' = IF r.outcome = "hang" THEN "hung" ELSE fmstate
  /\ UNCHANGED procs

\* A gateway call can be made.
GwReady == Len(gwlog) < MaxOps /\ fmstate = "open"

\* One gateway call as the caller saw it: the key it passed, the outcome (a
\* record's fields as they were when the call returned), the address of the
\* Commit handed over, whether cat-file was asked, and the value returned by
\* a write.
GwOp(op, key, out, addr, asked, ret) ==
  [op |-> op, key |-> key, out |-> out, addr |-> addr, asked |-> asked, ret |-> ret]

\* FilterManager.write_commit were it not to remember what it wrote.
CacheNotWritten(cache, mark, addr) == cache

\* self._cached_commits[mark] = commit
CacheWritten(cache, mark, addr) == [cache EXCEPT ![mark] = addr]

\* FilterManager.get_commit: the cached object itself on a hit; on a miss the
\* parsed object is cached and a copy of it returned.
GwGetCommit(key) ==
  /\ GwReady
  /\ IF cached_commits[key] # 0
     THEN /\ held' = held \cup {cached_commits[key]}
          /\ gwlog' = Append(gwlog, GwOp("get_commit", key,
                                         Returned(heap[cached_commits[key]], NewTag),
                                         cached_commits[key], FALSE, NoneKey))
          /\ UNCHANGED <<heap, cached_commits, chanVars>>
     ELSE \E r \in {ReadObject(pipes.cat \o CatFileAnswer(catfile, key, Len(reads) + 1))} :
          \E p \in {IF r.outcome = "read" THEN parse_commit(catfile, r.got[1].key)
                     ELSE Raised} :
            /\ Asked("cat", key, r)
            /\ IF p.raised
               THEN /\ gwlog' = Append(gwlog,
                                       GwOp("get_commit", key, Raised, 0, TRUE, NoneKey))
                    /\ UNCHANGED <<heap, cached_commits, held>>
               ELSE /\ heap' = heap \o <<p.commit, CommitCopy(p.commit)>>
                    /\ cached_commits' = [cached_commits EXCEPT ![key] = Len(heap) + 1]
                    /\ held' = held \cup {Len(heap) + 2}
                    /\ gwlog' = Append(gwlog, GwOp("get_commit", key,
                                                   Returned(CommitCopy(p.commit), NewTag),
                                                   Len(heap) + 2, TRUE, NoneKey))
  /\ UNCHANGED <<catfile, fi_next_mark, lastret, treeVars, filterVars>>

\* FilterManager.get_tag
GwGetTag(key) ==
  /\ GwReady
  /\ \E r \in {ReadObject(pipes.cat \o CatFileAnswer(catfile, key, Len(reads) + 1))} :
       /\ Asked("cat", key, r)
       /\ gwlog' = Append(gwlog,
                          GwOp("get_tag", key,
                               IF r.outcome = "read" THEN parse_tag(catfile, r.got[1].key)
                               ELSE Raised,
                               0, TRUE, NoneKey))
  /\ UNCHANGED <<catfile, heap, cached_commits, fi_next_mark, held, lastret, treeVars,
                 filterVars>>

\* FilterManager.get_mark: a mark is asked of fast-import, anything else is
\* returned as it is.
GwGetMark(mark) ==
  /\ GwReady
  /\ IF mark < 0
     THEN \E r \in {ReadLine(pipes.import \o LineAnswer(mark, Len(reads) + 1))} :
            Asked("import", mark, r)
     ELSE UNCHANGED chanVars
  /\ gwlog' = Append(gwlog, GwOp("get_mark", mark, Returned(NewCommit, NewTag), 0, FALSE,
                                 NoneKey))
  /\ UNCHANGED <<catfile, heap, cached_commits, fi_next_mark, held, lastret, treeVars,
                 filterVars>>

\* FilterManager.write_tree: the entries go to mktree and the line it
\* answers is the hash.
GwWriteTree(key) ==
  /\ GwReady
  /\ \E r \in {ReadLine(pipes.mktree \o LineAnswer(key, Len(reads) + 1))} :
       Asked("mktree", key, r)
  /\ gwlog' = Append(gwlog, GwOp("write_tree", key, Returned(NewCommit, NewTag), 0, FALSE,
                                 NoneKey))
  /\ UNCHANGED <<catfile, heap, cached_commits, fi_next_mark, held, lastret, treeVars,
                 filterVars>>

\* CatFileInput.close and TreeImportStream.close: stdin is closed and the
\* child waited for.
ProcessClosed(p, status) ==
  [p EXCEPT !.stdin = "closed", !.waited = TRUE, !.returncode = status]

\* FastImportStream.close: the temporary ref is reset, 'done' written, then
\* as above.
ImportClosed(p, status) ==
  ProcessClosed([p EXCEPT !.sent = <<"reset", "done">>], status)

\* The outcome of close(): the children as it left them, and whether it
\* raised.
CloseResult(ps, exc) == [procs |-> ps, raised |-> exc]

\* self._fast_import.close()
CloseImport(ps, status) ==
  CloseResult([ps EXCEPT !.import = ImportClosed(@, status.import)], status.import # 0)

\* self._tree_import.close(), then the import channel unless it raised.
CloseTreeImport(ps, status) ==
  IF status.mktree # 0
  THEN CloseResult([ps EXCEPT !.mktree = ProcessClosed(@, status.mktree)], TRUE)
  ELSE CloseImport([ps EXCEPT !.mktree = ProcessClosed(@, status.mktree)], status)

\* FilterManager.close: the three closes one after the other, "raise" in one
\* ending the method.
close(ps, status) ==
  IF status.cat # 0
  THEN CloseResult([ps EXCEPT !.cat = ProcessClosed(@, status.cat)], TRUE)
  ELSE CloseTreeImport([ps EXCEPT !.cat = ProcessClosed(@, status.cat)], status)

\* FilterManager.close(), each child exiting with the status it exits with.
GwClose(status) ==
  /\ fmstate = "open"
  /\ \E r \in {close(procs, status)} :
       /\ procs' = r.procs
       /\ fmstate' = IF r.raised THEN "raised" ELSE "closed"
  /\ UNCHANGED <<catfile, heap, cached_commits, fi_next_mark, held, lastret, gwlog, pipes,
                 reads, treeVars, filterVars>>

\* A Commit the caller builds itself.
CallerCommit ==
  [treehash |-> TreeY, parents |-> <<1>>, author |-> "C", author_date |-> 0,
   committer |-> "C", committer_date |-> 2, msg |-> Msg(0, FALSE)]

\* FilterManager.write_commit of a Commit the caller holds (src) or has just
\* built (src = 0): the mark is returned and the object itself is cached.
GwWriteCommit(src) ==
  /\ GwReady
  /\ \E a \in {IF src = 0 THEN Len(heap) + 1 ELSE src} :
       /\ heap' = IF src = 0 THEN Append(heap, CallerCommit) ELSE heap
       /\ held' = held \cup {a}
       /\ cached_commits' = CacheWritten(cached_commits, Mark(fi_next_mark), a)
       /\ gwlog' = Append(gwlog, GwOp("write_commit", NoneKey, Returned(heap'[a], NewTag), a,
                                      FALSE, Mark(fi_next_mark)))
  /\ fi_next_mark' = fi_next_mark + 1
  /\ lastret' = Mark(fi_next_mark)
  /\ UNCHANGED <<catfile, chanVars, treeVars, filterVars>>

\* FilterManager.write_tag: the tag goes down the import channel and nothing
\* is returned.
GwWriteTag(tag) ==
  /\ GwReady
  /\ gwlog' = Append(gwlog, GwOp("write_tag", NoneKey, Returned(NewCommit, tag), 0, FALSE,
                                 NoneKey))
  /\ lastret' = NoneKey
  /\ UNCHANGED <<catfile, heap, cached_commits, fi_next_mark, held, chanVars, treeVars,
                 filterVars>>

\* The caller changes a Commit it holds: a field, or its parent list.
GwMutate(a, field) ==
  /\ GwReady
  /\ heap' = [heap EXCEPT ![a] =
                IF field = "author" THEN [@ EXCEPT !.author = "B"]
                ELSE [@ EXCEPT !.parents = Append(@, 2)]]
  /\ gwlog' = Append(gwlog, GwOp("mutate", NoneKey, Returned(heap'[a], NewTag), a, FALSE,
                                 NoneKey))
  /\ UNCHANGED <<catfile, cached_commits, fi_next_mark, held, lastret, chanVars, treeVars,
                 filterVars>>

\* No gateway of its own is being driven.
GatewayIdle ==
  /\ pipes = NoPipes
  /\ reads = <<>>
  /\ procs = NewProcs
  /\ fmstate = "open"
  /\ catfile = <<>>
  /\ heap = <<>>
  /\ cached_commits = [k \in Keys |-> 0]
  /\ fi_next_mark = 1
  /\ held = {}
  /\ lastret = NoneKey
  /\ gwlog = <<>>

\* ---- do_filter and update_refs ----

args == <<rules, regexMode, prefixSensitive, msg_filter, commit_filter, tag_filter,
          backup_prefix, revmap_filename>>
treeOnly == <<troot, tcalls, tlog, tout, tfirst, treq, treeref, tleaves, tfinal, theap,
              tlast, tcall>>

\* do_filter up to its loop: the transformer, rev-list, the revmap file.  A
\* later call is followed where a revmap file carries the earlier one's
\* result to it.
Begin ==
  /\ pc \in {"idle", "done"}
  /\ run < MaxRuns
  /\ run = 0 \/ revmap_filename # ""
  /\ run' = run + 1
  /\ pc' = "loop"
  /\ gtt' = NewTransformer
  /\ fmTrees' = {}
  /\ revlist' = RevList(objects, refs, tagobjs)
  /\ revmap' = LoadRevmap(revmap_filename, revfile)
  /\ progress' = 0
  /\ next_mark' = 1
  /\ marks' = <<>>
  /\ cmds' = <<>>
  /\ proc' = <<>>
  /\ refidx' = 0
  /\ refs0' = refs
  /\ file0' = revfile
  /\ notified' = <<>>
  /\ UNCHANGED <<args, treeOnly, gwVars, objects, tagobjs, refs, revfile, tmpfile, revmap_out,
                 raised>>

\* The loop were it never to call updatefunc.
NotifyNever(n, updatefunc, newhash, sent) == n

\* if updatefunc is not None: updatefunc(newhash), sent being the number of
\* calls the import channel had taken by then.
Notify(n, updatefunc, newhash, sent) ==
  IF updatefunc THEN Append(n, [newhash |-> newhash, sent |-> sent]) ELSE n

\* The string result were it dropped.
AliasIgnored(rm, rev, str) == rm

\* if result != rev: revmap[rev] = result
AliasInstalled(rm, rev, str) == IF str # rev THEN With(rm, rev, str) ELSE rm

\* The loop were it to skip nothing.
NeverProcessed(rm, rev) == FALSE

\* if rev in revmap: continue
AlreadyProcessed(rm, rev) == rev \in DOMAIN rm

\* The write decision of the loop body, and what follows a write.
Decide(rev, r, t) ==
  /\ gtt' = [mapping |-> t.st.mapping, hits |-> t.st.hits, got |-> t.st.got,
             transforms |-> t.st.transforms]
  /\ fmTrees' = t.st.fmTrees
  /\ IF r.res.kind = "str"
     THEN /\ revmap' = AliasInstalled(revmap, rev, r.res.str)
          /\ proc' = Append(proc, Took(rev, "str", r.old, r.res.commit, FALSE, r.res.str,
                                         r.oldparents))
          /\ UNCHANGED <<next_mark, marks, cmds, objects, notified>>
     ELSE IF CommitNe(r.res.commit, r.old)
     THEN /\ next_mark' = next_mark + 1
          /\ cmds' = cmds \o LoopCmds(Mark(next_mark), r.res.commit, rev)
          /\ marks' = Append(marks, HashOf(objects, StoredCommit(marks, r.res.commit)))
          /\ objects' = Store(objects, StoredCommit(marks, r.res.commit))
          /\ revmap' = With(revmap, rev, Mark(next_mark))
          /\ notified' = Notify(notified, r.res.upd, Mark(next_mark), Len(cmds'))
          /\ proc' = Append(proc, Took(rev, r.res.kind, r.old, r.res.commit, TRUE, 0,
                                         r.oldparents))
     ELSE /\ proc' = Append(proc, Took(rev, r.res.kind, r.old, r.res.commit, FALSE, 0,
                                         r.oldparents))
          /\ UNCHANGED <<revmap, next_mark, marks, cmds, objects, notified>>

\* One turn of "for rev in revlist".
ProcessCommit ==
  /\ pc = "loop"
  /\ progress' = progress + 1
  /\ pc' = IF progress' = Len(revlist) THEN "refs" ELSE "loop"
  /\ LET rev == revlist[progress + 1]
     IN IF AlreadyProcessed(revmap, rev)
        THEN /\ proc' = Append(proc, Took(rev, "skip", NoObj, NoObj, FALSE, 0,
                                    [passed |-> <<>>, after |-> <<>>, own |-> TRUE]))
             /\ UNCHANGED <<revmap, next_mark, marks, cmds, objects, notified, gtt, fmTrees>>
        ELSE \E t \in {TransformTree(objects[rev].treehash)} :
               \E r \in {Filtered(rev, t.hash)} : Decide(rev, r, t)
  /\ UNCHANGED <<args, treeOnly, gwVars, tagobjs, refs, revfile, tmpfile, revmap_out, run,
                 raised, revlist, refidx, refs0, file0>>

\* One line of for-each-ref in update_refs.
UpdateRef ==
  /\ pc = "refs"
  /\ cmds' = cmds \o RefCmds(reflist[refidx + 1], refs[reflist[refidx + 1]])
  /\ refidx' = refidx + 1
  /\ pc' = IF refidx' = Len(reflist) THEN "revmap" ELSE "refs"
  /\ UNCHANGED <<args, treeOnly, gwVars, gtt, fmTrees, objects, tagobjs, refs, revfile, tmpfile,
                 revmap_out, run, raised, revlist, progress, revmap, next_mark, marks, proc,
                 refs0, file0, notified>>

\* An open file object: the lines written through it that are still in its
\* buffer.
Closed == [open |-> FALSE, buf |-> NoEnts]
Buffering(m) == [open |-> TRUE, buf |-> m]

\* A file written with the default buffering holds what has filled its buffer;
\* the rest reaches it at flush() or close().  A line of the revmap is two
\* hashes, a blank and a newline.
BUFSIZ == 4096
LineLen == 82
OnDisk(n) == (((n * LineLen) \div BUFSIZ) * BUFSIZ) \div LineLen

Restrict(f, S) == [k \in S |-> f[k]]

\* The revmap written to revmap_filename + '.tmp' through revmap_out, marks
\* resolved; revmap_out is left open.
WriteRevmap ==
  /\ pc = "revmap"
  /\ pc' = "close"
  /\ IF revmap_filename # ""
     THEN \E lines \in {[k \in DOMAIN revmap |-> get_mark(marks, revmap[k])]} :
          \E S \in {T \in SUBSET DOMAIN lines :
                       Cardinality(T) = OnDisk(Cardinality(DOMAIN lines))} :
            /\ tmpfile' = File(Restrict(lines, S))
            /\ revmap_out' = Buffering(Restrict(lines, DOMAIN lines \ S))
     ELSE UNCHANGED <<tmpfile, revmap_out>>
  /\ UNCHANGED <<args, treeOnly, gwVars, gtt, fmTrees, objects, tagobjs, refs, revfile, run,
                 raised, revlist, progress, revmap, next_mark, marks, cmds, proc, refidx, refs0,
                 file0, notified>>

\* fm.close(): 'done' is sent and the channel's ref commands take effect.
Close ==
  /\ pc = "close"
  /\ pc' = "rename"
  /\ cmds' = Append(cmds, DoneCmd)
  /\ \E st \in {ApplyCmds(cmds, 1, marks, [refs |-> refs, tags |-> tagobjs])} :
        /\ refs' = st.refs
        /\ tagobjs' = st.tags
  /\ UNCHANGED <<args, treeOnly, gwVars, gtt, fmTrees, objects, revfile, tmpfile, revmap_out,
                 run, raised, revlist, progress, revmap, next_mark, marks, proc, refidx, refs0,
                 file0, notified>>

\* os.rename(revmap_filename + '.tmp', revmap_filename)
Rename ==
  /\ pc = "rename"
  /\ pc' = "return"
  /\ revfile' = IF revmap_filename # "" THEN tmpfile ELSE revfile
  /\ tmpfile' = IF revmap_filename # "" THEN NoFile ELSE tmpfile
  /\ UNCHANGED <<args, treeOnly, gwVars, gtt, fmTrees, objects, tagobjs, refs, revmap_out, run,
                 raised, revlist, progress, revmap, next_mark, marks, cmds, proc, refidx, refs0,
                 file0, notified>>

\* do_filter returns: revmap_out goes out of scope and is closed, and what
\* it buffered reaches the file it was opened on, by now under its new name.
Return ==
  /\ pc = "return"
  /\ pc' = "done"
  /\ revfile' = IF revmap_out.open THEN File(Merge(revmap_out.buf, revfile.map)) ELSE revfile
  /\ revmap_out' = Closed
  /\ UNCHANGED <<args, treeOnly, gwVars, gtt, fmTrees, objects, tagobjs, refs, tmpfile, run,
                 raised, revlist, progress, revmap, next_mark, marks, cmds, proc, refidx, refs0,
                 file0, notified>>

\* An exception leaves do_filter: from a filter, an action or the gateway in
\* the loop, from update_refs, from the revmap's writing, from close before
\* 'done', or from the rename.
Raise ==
  /\ pc \in {"loop", "refs", "revmap", "close", "rename"}
  /\ pc' = "aborted"
  /\ raised' = pc
  /\ UNCHANGED <<args, treeOnly, gwVars, gtt, fmTrees, objects, tagobjs, refs, revfile, tmpfile,
                 revmap_out, run, revlist, progress, revmap, next_mark, marks, cmds, proc,
                 refidx, refs0, file0, notified>>

\* No do_filter call is under way.
FilterIdle ==
  /\ revfile = NoFile
  /\ tmpfile = NoFile
  /\ revmap_out = Closed
  /\ run = 0
  /\ pc = "idle"
  /\ raised = "no"
  /\ revlist = <<>>
  /\ progress = 0
  /\ revmap = NoEnts
  /\ next_mark = 1
  /\ marks = <<>>
  /\ cmds = <<>>
  /\ proc = <<>>
  /\ refidx = 0
  /\ refs0 = refs
  /\ file0 = NoFile
  /\ notified = <<>>

\* The one rule do_filter is handed here: delete every file named x.
DeleteX == <<[pat |-> PatSuffix("x", FALSE), act |-> "delete"]>>

\* A repository of MaxCommits commits, all reached from refs/heads/main and
\* refs/tags/v1, and a choice of do_filter's arguments.  Trees differ only
\* where a rule list can tell them apart.
Init ==
  /\ rules \in {<<>>, DeleteX}
  /\ regexMode = "re"
  /\ prefixSensitive = TRUE
  /\ msg_filter \in MsgFilters
  /\ commit_filter \in CommitFilters
  /\ tag_filter \in TagFilters
  /\ backup_prefix \in {"", "refs/original"}
  /\ revmap_filename \in {"", "revmap"}
  /\ \E pat \in IF rules = <<>> THEN {"all"} ELSE TreePatterns :
        objects \in Repos(MaxCommits, pat, MaxCommits)
  /\ \E k \in TagKinds, t \in 1..MaxCommits :
        /\ tagobjs = IF k = "light" THEN <<>>
                     ELSE <<InitTag(k, IF k = "tree" THEN 0 ELSE t)>>
        /\ refs = [n \in AllRefs |->
                     IF n = MainRef THEN CommitRefTo(MaxCommits)
                     ELSE IF n = TagRef
                     THEN IF k = "light" THEN CommitRefTo(t) ELSE TagRefTo(1)
                     ELSE NoRef]
  /\ Closure(objects, UNION {RefCommits(refs[reflist[i]], tagobjs) : i \in 1..Len(reflist)})
       = 1..MaxCommits
  /\ gtt = NewTransformer
  /\ fmTrees = {}
  /\ troot = GIT_EMPTY_TREE_HASH
  /\ tcalls = 0
  /\ tlog = <<>>
  /\ tout = GIT_EMPTY_TREE_HASH
  /\ tfirst = GIT_EMPTY_TREE_HASH
  /\ treq = 0
  /\ treeref = TreeOfHash(GIT_EMPTY_TREE_HASH)
  /\ tleaves = {}
  /\ tfinal = FALSE
  /\ theap = <<>>
  /\ tlast = NoEdit
  /\ tcall = NoCall
  /\ FilterIdle
  /\ GatewayIdle

Next ==
  \/ Begin
  \/ ProcessCommit
  \/ UpdateRef
  \/ WriteRevmap
  \/ Close
  \/ Rename
  \/ Return
  \/ Raise

Spec == Init /\ [][Next]_vars

\* With no rule declared neither the engine nor the flag is ever read: one
\* value of each stands for all.
InitTree ==
  /\ rules \in RuleLists
  /\ regexMode \in RegexModes
  /\ prefixSensitive \in BOOLEAN
  /\ rules = <<>> => regexMode = "re" /\ prefixSensitive
  /\ gtt = NewTransformer
  /\ fmTrees = {}
  /\ troot \in Roots
  /\ tcalls = 0
  /\ tlog = <<>>
  /\ tout = GIT_EMPTY_TREE_HASH
  /\ tfirst = GIT_EMPTY_TREE_HASH
  /\ treq = 0
  /\ treeref = TreeOfHash(troot)
  /\ tleaves = Leaves(TreeOfHash(troot), <<>>)
  /\ tfinal = FALSE
  /\ theap = <<>>
  /\ tlast = NoEdit
  /\ tcall = NoCall
  /\ msg_filter = "none"
  /\ commit_filter = "none"
  /\ tag_filter = "none"
  /\ backup_prefix = ""
  /\ revmap_filename = ""
  /\ objects = <<>>
  /\ tagobjs = <<>>
  /\ refs = [n \in AllRefs |-> NoRef]
  /\ FilterIdle
  /\ GatewayIdle

\* gtt.transform(root) on the caching transformer; troot is the root of the
\* last call.
Transform(root) ==
  /\ tcalls < MaxCalls
  /\ \E r \in {transform(Caching(regexMode), TState(gtt, fmTrees), root)} :
        /\ gtt' = [mapping |-> r.st.mapping, hits |-> r.st.hits, got |-> r.st.got,
                   transforms |-> r.st.transforms]
        /\ fmTrees' = r.st.fmTrees
        /\ tlog' = r.st.log
        /\ tout' = r.hash
        /\ tfirst' = IF tcalls = 0 THEN r.hash ELSE tfirst
        /\ treq' = r.st.cat + r.st.mktree
        /\ tcall' = [prev |-> IF tcalls = 0 THEN NoRoot ELSE troot,
                     hits |-> r.st.hits - gtt.hits, mktree |-> r.st.mktree]
  /\ tcalls' = tcalls + 1
  /\ troot' = root
  /\ UNCHANGED <<rules, regexMode, prefixSensitive, treeref, tleaves, tfinal, theap, tlast>>
  /\ UNCHANGED <<filterVars, gwVars>>

\* The same root again.
TransformCall == Transform(troot)

\* What a CvsFixup method leaves behind: the heap, self.treeref, and whether it
\* raised.  A method that raises has assigned nothing since h and treeref.
Fixed(h, treeref_, r) ==
  IF r.e = ValueErr THEN [h |-> h, e |-> treeref_, raised |-> TRUE]
  ELSE [h |-> r.h, e |-> r.e, raised |-> FALSE]

\* CvsFixup.rm
rm(h, treeref_, path) == Fixed(h, treeref_, remove_path(h, treeref_, path))

\* CvsFixup.addfile
addfile(h, treeref_, path, githash) ==
  Fixed(h, treeref_, add_path(h, treeref_, path, Blob(githash)))

\* CvsFixup.cp, old_entry what get_path found at oldpath
CpEntry(h, treeref_, newpath, old_entry) ==
  IF old_entry = None THEN Fixed(h, treeref_, remove_path(h, treeref_, newpath))
  ELSE Fixed(h, treeref_, add_path(h, treeref_, newpath, old_entry))

cp(h, treeref_, oldpath, newpath) ==
  CpEntry(h, treeref_, newpath, get_path(h, treeref_, oldpath))

\* CvsFixup.mv: treeref is assigned between the removal and the addition.
MvRemoved(r, newpath, old_entry) ==
  Fixed(r.h, r.e, add_path(r.h, r.e, newpath, old_entry))

MvEntry(h, treeref_, oldpath, newpath, old_entry) ==
  IF old_entry = None THEN Fixed(h, treeref_, remove_path(h, treeref_, newpath))
  ELSE MvRemoved(remove_path(h, treeref_, oldpath), newpath, old_entry)

mv(h, treeref_, oldpath, newpath) ==
  MvEntry(h, treeref_, oldpath, newpath, get_path(h, treeref_, oldpath))

\* The edits followed on one CvsFixup.
MaxEdits == 3

\* One CvsFixup method call, r what it left behind.  Edits are explored where
\* no rule list is declared: they share no state with the transformer.
Edit(op, from, path, r) ==
  /\ rules = <<>>
  /\ ~tfinal
  /\ tlast.n < MaxEdits
  /\ theap' = r.h
  /\ treeref' = r.e
  /\ tlast' = [n |-> tlast.n + 1, op |-> op, from |-> from, path |-> path,
               raised |-> r.raised, recv |-> treeref, pre |-> View(theap, treeref)]
  /\ UNCHANGED <<rules, regexMode, prefixSensitive, gtt, fmTrees, troot, tcalls, tlog, tout,
                 tfirst, treq, tfinal, tcall>>
  /\ UNCHANGED <<filterVars, gwVars>>

\* CvsFixup.rm(name)
CvsRm(path) ==
  /\ Edit("rm", <<>>, path, rm(theap, treeref, path))
  /\ tleaves' = {l \in tleaves : ~IsPrefix(path, l.path)}

\* CvsFixup.addfile(name, githash); tleaves follows removals only.
CvsAddfile(path) ==
  /\ Edit("addfile", <<>>, path, addfile(theap, treeref, path, 1))
  /\ UNCHANGED tleaves

\* CvsFixup.cp(oldname, newname)
CvsCp(oldpath, newpath) ==
  /\ Edit("cp", oldpath, newpath, cp(theap, treeref, oldpath, newpath))
  /\ UNCHANGED tleaves

\* CvsFixup.mv(oldname, newname)
CvsMv(oldpath, newpath) ==
  /\ Edit("mv", oldpath, newpath, mv(theap, treeref, oldpath, newpath))
  /\ UNCHANGED tleaves

\* CvsFixup.finalize: self.treeref.write_subentries(self.fm)
CvsFinalize ==
  /\ rules = <<>>
  /\ ~tfinal
  /\ tfinal' = TRUE
  /\ treeref' = write_subentries(View(theap, treeref))
  /\ fmTrees' = fmTrees \cup WrittenBy(View(theap, treeref))
  /\ UNCHANGED <<rules, regexMode, prefixSensitive, gtt, troot, tcalls, tlog, tout, tfirst,
                 treq, tleaves, theap, tlast, tcall>>
  /\ UNCHANGED <<filterVars, gwVars>>

NextTree ==
  \/ TransformCall
  \/ \E path \in EditPaths : CvsRm(path)
  \/ CvsFinalize

SpecTree == InitTree /\ [][NextTree]_vars

\* ---- CvsFixup on its own ----
\* The trees a CvsFixup is made on, and the paths its methods are handed:
\* a and b name directories, x is a file of every root, a/y and b/y are
\* files below them, x/y runs through the file.
FixRoots == {GitHash(CleanDir(Merge([n \in {"x"} |-> Blob(1)], t))) : t \in TreesUpTo(1)}
FixPaths == {<<"a">>, <<"b">>, <<"a", "y">>, <<"b", "y">>, <<"x">>, <<"x", "y">>}

InitFixup ==
  /\ troot \in FixRoots
  /\ rules = <<>>
  /\ regexMode = "re"
  /\ prefixSensitive = TRUE
  /\ gtt = NewTransformer
  /\ fmTrees = {}
  /\ tcalls = 0
  /\ tlog = <<>>
  /\ tout = GIT_EMPTY_TREE_HASH
  /\ tfirst = GIT_EMPTY_TREE_HASH
  /\ treq = 0
  /\ treeref = TreeOfHash(troot)
  /\ tleaves = Leaves(TreeOfHash(troot), <<>>)
  /\ tfinal = FALSE
  /\ theap = <<>>
  /\ tlast = NoEdit
  /\ tcall = NoCall
  /\ msg_filter = "none"
  /\ commit_filter = "none"
  /\ tag_filter = "none"
  /\ backup_prefix = ""
  /\ revmap_filename = ""
  /\ objects = <<>>
  /\ tagobjs = <<>>
  /\ refs = [n \in AllRefs |-> NoRef]
  /\ FilterIdle
  /\ GatewayIdle

NextFixup ==
  \/ \E path \in FixPaths : CvsRm(path)
  \/ \E path \in FixPaths : CvsAddfile(path)
  \/ \E oldpath \in FixPaths, newpath \in FixPaths : CvsCp(oldpath, newpath)
  \/ \E oldpath \in FixPaths, newpath \in FixPaths : CvsMv(oldpath, newpath)

SpecFixup == InitFixup /\ [][NextFixup]_vars

\* ---- one transformer over the trees of several commits ----
\* The rules of a caller that names files and directories wherever they are,
\* '.*/x' and '.*/a/' deleted and '.*' touched, or one file, '/x' deleted.
CacheRules == {[pat |-> PatSuffix("x", FALSE), act |-> "delete"],
               [pat |-> PatSuffix("a", TRUE), act |-> "delete"],
               [pat |-> PatExact(<<"x">>, FALSE), act |-> "delete"],
               [pat |-> PatAny, act |-> "touch"]}
CacheRuleLists == UNION {[1..n -> CacheRules] : n \in 1..MaxRules}

\* The root trees of the commits that follow one of root tree h: the same tree,
\* a tree with the same directory a and other files, and the tree of a itself.
NextRoots(h) ==
  {h} \cup {r \in Roots : "a" \in DOMAIN h.ents /\ "a" \in DOMAIN r.ents
                          /\ r.ents["a"] = h.ents["a"]}
      \cup {GitHash(h.ents[n]) : n \in DOMAIN h.ents \cap DirNames}

InitCache ==
  /\ rules \in CacheRuleLists
  /\ regexMode \in RegexModes
  /\ prefixSensitive \in BOOLEAN
  /\ gtt = NewTransformer
  /\ fmTrees = {}
  /\ troot \in Roots
  /\ tcalls = 0
  /\ tlog = <<>>
  /\ tout = GIT_EMPTY_TREE_HASH
  /\ tfirst = GIT_EMPTY_TREE_HASH
  /\ treq = 0
  /\ treeref = TreeOfHash(troot)
  /\ tleaves = Leaves(TreeOfHash(troot), <<>>)
  /\ tfinal = FALSE
  /\ theap = <<>>
  /\ tlast = NoEdit
  /\ tcall = NoCall
  /\ msg_filter = "none"
  /\ commit_filter = "none"
  /\ tag_filter = "none"
  /\ backup_prefix = ""
  /\ revmap_filename = ""
  /\ objects = <<>>
  /\ tagobjs = <<>>
  /\ refs = [n \in AllRefs |-> NoRef]
  /\ FilterIdle
  /\ GatewayIdle

NextCache ==
  \E root \in IF tcalls = 0 THEN {troot} ELSE NextRoots(troot) : Transform(root)

SpecCache == InitCache /\ [][NextCache]_vars

\* A repository of two objects, the first a root commit, and a gateway just
\* constructed.
InitGateway ==
  /\ \E o \in ObjectChoices : catfile = <<Object("commit", CommitText(<<>>, <<>>)), o>>
  /\ heap = <<>>
  /\ cached_commits = [k \in Keys |-> 0]
  /\ fi_next_mark = 1
  /\ held = {}
  /\ lastret = NoneKey
  /\ gwlog = <<>>
  /\ pipes = NoPipes
  /\ reads = <<>>
  /\ procs = NewProcs
  /\ fmstate = "open"
  /\ rules = <<>>
  /\ regexMode = "re"
  /\ prefixSensitive = TRUE
  /\ gtt = NewTransformer
  /\ fmTrees = {}
  /\ troot = GIT_EMPTY_TREE_HASH
  /\ tcalls = 0
  /\ tlog = <<>>
  /\ tout = GIT_EMPTY_TREE_HASH
  /\ tfirst = GIT_EMPTY_TREE_HASH
  /\ treq = 0
  /\ treeref = TreeOfHash(GIT_EMPTY_TREE_HASH)
  /\ tleaves = {}
  /\ tfinal = FALSE
  /\ theap = <<>>
  /\ tlast = NoEdit
  /\ tcall = NoCall
  /\ msg_filter = "none"
  /\ commit_filter = "none"
  /\ tag_filter = "none"
  /\ backup_prefix = ""
  /\ revmap_filename = ""
  /\ objects = <<>>
  /\ tagobjs = <<>>
  /\ refs = [n \in AllRefs |-> NoRef]
  /\ FilterIdle

NextGateway ==
  \/ \E key \in {1, 2, MissingHash, lastret} \cup {Mark(k) : k \in 1..(fi_next_mark - 1)} :
        GwGetCommit(key)
  \/ \E key \in {1, 2, lastret} : GwGetTag(key)
  \/ \E mark \in {1, lastret} \ {NoneKey} : GwGetMark(mark)
  \/ GwWriteTree(1)
  \/ \E status \in [{"cat", "mktree", "import"} -> {0, 1}] : GwClose(status)
  \/ \E src \in held \cup {0} : GwWriteCommit(src)
  \/ GwWriteTag(TagObj(1, "commit", "v1", FALSE))
  \/ \E a \in held, field \in {"author", "parents"} : GwMutate(a, field)

SpecGateway == InitGateway /\ [][NextGateway]_vars

\* ------------------------------------------------------------- tree claims
RECURSIVE NoEmptyDir(_)
NoEmptyDir(e) ==
  \A n \in DOMAIN e.ents :
    IsDir(e.ents[n]) => e.ents[n].ents # NoEnts /\ NoEmptyDir(e.ents[n])

DeleteOnly == \A i \in 1..Len(rules) : rules[i].act = "delete"

\* The files of troot that no delete rule names: a file goes when a rule
\* matches its path or the path of a directory above it.
Surviving ==
  {l \in Leaves(TreeOfHash(troot), <<>>) :
     \A i \in 1..Len(rules) :
       /\ ~FullMatch(rules[i].pat, Path(l.path, FALSE))
       /\ \A k \in 0..(Len(l.path) - 1) :
            ~FullMatch(rules[i].pat, Path(SubSeq(l.path, 1, k), TRUE))}

\* C6: a directory left with no entries, by remove_path edits or by the
\* transformer's deletions, is gone from the written tree, whose hash is that
\* of the tree that never held it: after finalize, treeref is the canonical
\* tree of the files that were not removed (the empty-tree hash when none is
\* left), and a transform output holds no empty directory and, under delete
\* rules, is the canonical tree of the surviving files.
C6_CanonicalEmptyTree ==
  /\ tfinal => /\ ~treeref.dirty
               /\ GitHash(treeref) = GitHash(Build(tleaves, <<>>))
  /\ tcalls > 0 => /\ NoEmptyDir(TreeOfHash(tout))
                   /\ DeleteOnly => tout = GitHash(Build(Surviving, <<>>))

\* The delete-path scenario: a/a/x is the only file under a/, '.*/x' is
\* deleted, and the output holds y alone.
C6_Witness ==
  /\ tcalls > 0
  /\ rules = <<[pat |-> PatSuffix("x", FALSE), act |-> "delete"]>>
  /\ troot = GitHash(CleanDir([n \in {"a", "y"} |->
               IF n = "y" THEN Blob(1)
               ELSE CleanDir([m \in {"a"} |-> CleanDir([k \in {"x"} |-> Blob(1)])])]))
  /\ tout = GitHash(CleanDir([n \in {"y"} |-> Blob(1)]))

\* The invocations of the last call at pathname p, in order.
LogAt(p) == SelectSeq(tlog, LAMBDA r : r.path = p)

\* The pathnames of troot: its files, its directories and the root itself.
RECURSIVE PathsOf(_, _)
PathsOf(e, at) ==
  IF ~IsDir(e) THEN {Path(at, FALSE)}
  ELSE {Path(at, TRUE)} \cup UNION {PathsOf(e.ents[n], Append(at, n)) : n \in DOMAIN e.ents}

\* No action of the last call deleted a directory above p.
Reached(p) ==
  \A k \in 0..(Len(p.segs) - 1) :
    \A i \in 1..Len(tlog) :
      tlog[i].path = Path(SubSeq(p.segs, 1, k), TRUE) => tlog[i].out # None

\* C7: in the first transform call, at every pathname P of the root that is
\* reached, the rules invoked are rules that fully match P, in declaration
\* order, the first on the original entry and each later one on the previous
\* one's output, no rule that matches P is skipped unless an earlier rule
\* deleted the entry, and the output holds at a file's path what the last of
\* them returned.
C7_TransformerContract ==
  tcalls = 1 =>
    \A p \in PathsOf(TreeOfHash(troot), <<>>) :
      LET at == LogAt(p)
      IN /\ \A k \in 1..Len(at) :
              /\ FullMatch(rules[at[k].rule].pat, p)
              /\ at[k].inp = IF k = 1 THEN get_path(<<>>, TreeOfHash(troot), p.segs)
                             ELSE at[k - 1].out
              /\ k > 1 => at[k - 1].rule < at[k].rule
         /\ Reached(p) =>
              \A i \in 1..Len(rules) :
                FullMatch(rules[i].pat, p) =>
                  \/ \E k \in 1..Len(at) : at[k].rule = i
                  \/ \E k \in 1..Len(at) : at[k].rule < i /\ at[k].out = None
         /\ ~p.dir =>
              get_path(<<>>, TreeOfHash(tout), p.segs) =
                IF ~Reached(p) THEN None
                ELSE IF at = <<>> THEN get_path(<<>>, TreeOfHash(troot), p.segs)
                ELSE at[Len(at)].out

\* C8: once an action has returned None for a pathname, no later action is
\* invoked for that pathname, so no action is ever handed None.
C8_DeleteShortCircuits ==
  \A i \in 1..Len(tlog) :
    /\ tlog[i].inp # None
    /\ \A j \in 1..(i - 1) : tlog[j].path = tlog[i].path => tlog[j].out # None

\* C9: a second or later transform of the same root returns the hash the
\* first call returned, invokes no action and sends at most one request to
\* a child.
C9_MemoizedTransform ==
  tcalls >= 2 => /\ tout = tfirst
                 /\ tlog = <<>>
                 /\ treq <= 1

\* A second call after a first in which an action deleted the root.
C9_Witness ==
  /\ tcalls >= 2
  /\ gtt.transforms > 0
  /\ troot # GIT_EMPTY_TREE_HASH
  /\ tfirst = GIT_EMPTY_TREE_HASH
  /\ gtt.hits > 0
  /\ \E m \in gtt.mapping : m.hash = troot /\ m.out = None

\* ------------------------------------------------------------- filter claims
CommitCmds == {i \in 1..Len(cmds) : cmds[i].op = "commit"}
RefCmdsIssued == {i \in 1..Len(cmds) : cmds[i].op \in {"reset", "tag"}}
CallerRefs == {reflist[i] : i \in 1..Len(reflist)}
CallerRefCmds == {i \in RefCmdsIssued : cmds[i].ref \in CallerRefs}

EmptyPolicy ==
  /\ msg_filter = "none"
  /\ rules = <<>>
  /\ tag_filter = "none"
  /\ commit_filter = "ident"

C2_NoRefCmdOnAbort ==
  pc = "aborted" => CallerRefCmds = {}

\* C2: when the exception is raised in the commit loop, before update_refs is
\* called, no reset_ref and no write_tag has been issued for any ref; and
\* when it is raised anywhere before close sends 'done', 'done' has not been
\* sent and every ref points where it did when the call began.
C2_NoRefCmdBeforeUpdateRefs ==
  pc = "aborted" =>
    /\ raised = "loop" => RefCmdsIssued = {}
    /\ raised # "rename" => /\ \A i \in 1..Len(cmds) : cmds[i].op # "done"
                            /\ refs = refs0

\* An exception in the loop after a commit was written for the commit
\* refs/tags/v1 points to.
C2_Witness ==
  /\ pc = "aborted"
  /\ raised = "loop"
  /\ progress >= 1
  /\ refs[TagRef].h \in DOMAIN revmap
  /\ refs[TagRef].kind = "commit"
  /\ CommitCmds # {}

\* C3: every commit written has the parent list of its original, position by
\* position, each parent replaced by its revmap entry where the revmap held
\* one when the commit was processed and kept as it is otherwise.
C3_ParentRemap ==
  \A i \in CommitCmds :
    LET P == objects[cmds[i].rev].parents
        W == cmds[i].obj.parents
        at == cmds[i].at
    IN /\ Len(W) = Len(P)
       /\ \A j \in 1..Len(P) : W[j] = IF P[j] \in DOMAIN at THEN at[P[j]] ELSE P[j]

\* M with parents [A, B], A rewritten and B not in the revmap: M' has [A', B].
C3_Witness ==
  \E i \in CommitCmds :
    LET P == objects[cmds[i].rev].parents
        W == cmds[i].obj.parents
    IN /\ Len(P) = 2
       /\ P[1] \in DOMAIN cmds[i].at
       /\ P[2] \notin DOMAIN cmds[i].at
       /\ IsMark(W[1])
       /\ W[2] = P[2]

\* Where rev stands in what the loop has taken (0 when not taken).
TakenAt(rev) ==
  IF \E k \in 1..Len(proc) : proc[k].rev = rev
  THEN CHOOSE k \in 1..Len(proc) : proc[k].rev = rev
  ELSE 0

InRevlist(h) == \E k \in 1..Len(revlist) : revlist[k] = h

\* C4: for every commit written, each mark among its parents was returned by
\* an earlier write_commit of the same channel, and each parent of its
\* original that is in revlist was taken by the loop before it, with the
\* revmap entry it has now (or none) already there when the child was
\* processed.
C4_ParentsBeforeChildren ==
  \A i \in CommitCmds :
    /\ \A j \in 1..Len(cmds[i].obj.parents) :
         IsMark(cmds[i].obj.parents[j]) =>
           \E k \in CommitCmds : k < i /\ cmds[k].to.h = cmds[i].obj.parents[j]
    /\ \A j \in 1..Len(objects[cmds[i].rev].parents) :
         LET p == objects[cmds[i].rev].parents[j]
         IN InRevlist(p) =>
              /\ TakenAt(p) > 0
              /\ TakenAt(p) < TakenAt(cmds[i].rev)
              /\ (p \in DOMAIN revmap) = (p \in DOMAIN cmds[i].at)
              /\ p \in DOMAIN revmap => revmap[p] = cmds[i].at[p]

\* A merge written after both of its parents were written in the same call.
C4_Witness ==
  \E i \in CommitCmds :
    /\ Len(cmds[i].obj.parents) = 2
    /\ IsMark(cmds[i].obj.parents[1])
    /\ IsMark(cmds[i].obj.parents[2])
    /\ cmds[i].obj.parents[1] # cmds[i].obj.parents[2]

Differs(a, b) ==
  \/ a.treehash # b.treehash
  \/ a.parents # b.parents
  \/ a.author # b.author
  \/ a.author_date # b.author_date
  \/ a.committer # b.committer
  \/ a.committer_date # b.committer_date
  \/ a.msg # b.msg

WritesOf(rev) == {i \in CommitCmds : cmds[i].rev = rev}

\* C5: for every rev the loop took whose commit filter is absent or returned
\* a Commit: if the final commit differs from the parsed one in any of its
\* seven fields, exactly one write_commit was issued, of the final commit,
\* and the revmap maps the rev to the mark it returned; if not, none was
\* issued and the rev is absent from the revmap.
C5_WriteIffChanged ==
  \A k \in 1..Len(proc) :
    proc[k].kind = "commit" =>
      IF Differs(proc[k].final, proc[k].old)
      THEN /\ Cardinality(WritesOf(proc[k].rev)) = 1
           /\ \A i \in WritesOf(proc[k].rev) :
                /\ cmds[i].obj = proc[k].final
                /\ proc[k].rev \in DOMAIN revmap
                /\ revmap[proc[k].rev] = cmds[i].to.h
                /\ IsMark(cmds[i].to.h)
      ELSE /\ WritesOf(proc[k].rev) = {}
           /\ proc[k].rev \notin DOMAIN revmap

\* A change of message alone: written with the tree it had, and in the revmap.
C5_Witness ==
  \E k \in 1..Len(proc) :
    /\ proc[k].kind = "commit"
    /\ proc[k].final.msg # proc[k].old.msg
    /\ proc[k].final = [proc[k].old EXCEPT !.msg = proc[k].final.msg]
    /\ \E i \in WritesOf(proc[k].rev) : cmds[i].obj.treehash = proc[k].old.treehash
    /\ proc[k].rev \in DOMAIN revmap

\* C10 as claimed: a second call given the first call's revmap file issues no
\* write_commit and no write_tag, moves no ref and leaves the file as the
\* first call wrote it.
C10_SecondRunNoOp ==
  (/\ run >= 2
   /\ revmap_filename # ""
   /\ pc \in {"refs", "revmap", "close", "rename", "return", "done"}) =>
    /\ CommitCmds = {}
    /\ \A i \in 1..Len(cmds) : cmds[i].op # "tag"
    /\ refs = refs0
    /\ pc = "done" => revfile = file0

\* A second application of the message filter changes nothing.
MsgFilterIdempotent ==
  msg_filter = "none" \/
    \A n \in 0..MaxRuns :
      ApplyMsgFilter(ApplyMsgFilter(Msg(n, FALSE))) = ApplyMsgFilter(Msg(n, FALSE))

\* C10: where the filters change nothing of what they produced, a later
\* call given the earlier call's revmap file issues no write_commit and no
\* write_tag, moves no ref and leaves the file as the earlier call wrote
\* it.  (The tree rule, the commit filters and the tag filter here are all
\* of that kind; of the message filters, the one that prepends always is not.)
C10_SecondRunNoOpIdempotent ==
  MsgFilterIdempotent => C10_SecondRunNoOp

\* A second call finished where the first rewrote commits and a tag, with
\* original commits still reached through the refs.
C10_Witness ==
  /\ run = 2
  /\ pc = "done"
  /\ MsgFilterIdempotent
  /\ DOMAIN file0.map # {}
  /\ refs[MainRef].h > MaxCommits
  /\ \E k \in 1..Len(proc) : proc[k].kind = "skip"
  /\ \E k \in 1..Len(proc) : proc[k].kind # "skip"

\* ---- The gateway's contracts ----

GwCalls(op) == {i \in 1..Len(gwlog) : gwlog[i].op = op}
Stored(key) == key \in 1..Len(catfile)

\* C11: reading an object as a commit raises whenever the object stored
\* under the hash is not a commit, and reading one as a tag raises whenever
\* it is not a tag: no Commit or Tag is ever built from an object of another
\* kind.
C11_KindMismatchFatal ==
  /\ \A i \in GwCalls("get_commit") :
        gwlog[i].asked /\ Stored(gwlog[i].key) /\ catfile[gwlog[i].key].kind # "commit"
          => gwlog[i].out.raised
  /\ \A i \in GwCalls("get_tag") :
        Stored(gwlog[i].key) /\ catfile[gwlog[i].key].kind # "tag" => gwlog[i].out.raised

\* C12: every get_commit of a stored commit returns a record equal field by
\* field to the stored commit, whatever the caller did to the records it was
\* handed before, on a miss and on a hit alike.
C12_CopyOnRead ==
  \A i \in GwCalls("get_commit") :
    Stored(gwlog[i].key) /\ catfile[gwlog[i].key].kind = "commit" /\ ~gwlog[i].out.raised
      => CommitEq(gwlog[i].out.commit, parse_commit(catfile, gwlog[i].key).commit)

\* A read that directly follows a write and passes what the write returned.
RereadOf(i, writeop, readop) ==
  /\ i \in GwCalls(writeop)
  /\ i + 1 \in GwCalls(readop)
  /\ gwlog[i + 1].key = gwlog[i].ret

\* C13 as stated: a commit read back with what write_commit returned, and a
\* tag read back with what write_tag returned, directly after the write,
\* equals field by field the record written, and no child is waited for.
C13_WriteReadRoundTrip ==
  \A i \in 1..Len(gwlog) :
    /\ RereadOf(i, "write_commit", "get_commit")
          => /\ ~gwlog[i + 1].out.raised
             /\ CommitEq(gwlog[i + 1].out.commit, gwlog[i].out.commit)
             /\ ~gwlog[i + 1].asked
    /\ RereadOf(i, "write_tag", "get_tag")
          => /\ ~gwlog[i + 1].out.raised
             /\ TagEq(gwlog[i + 1].out.tag, gwlog[i].out.tag)

\* C13, commits only: get_commit(write_commit(c)) directly after the write
\* returns a record equal field by field to c as written, from the cache,
\* with no request to a child.
C13_CommitWriteReadRoundTrip ==
  \A i \in 1..Len(gwlog) :
    RereadOf(i, "write_commit", "get_commit")
      => /\ ~gwlog[i + 1].out.raised
         /\ CommitEq(gwlog[i + 1].out.commit, gwlog[i].out.commit)
         /\ ~gwlog[i + 1].asked

\* A commit the caller changed after reading it is written and read back.
C13_Witness ==
  \E i \in 1..Len(gwlog) :
    /\ RereadOf(i, "write_commit", "get_commit")
    /\ gwlog[i].out.commit.author = "B"
    /\ gwlog[i + 1].out.commit.author = "B"

\* ---- do_filter's commit filter results and update_refs ----

Aliased == {k \in 1..Len(proc) : proc[k].kind = "str"}
RefsDone == pc \in {"revmap", "close", "rename", "return", "done"}
ResetsOf(ref) == {i \in 1..Len(cmds) : cmds[i].op = "reset" /\ cmds[i].ref = ref}

\* What holds of every string result: no write, no callback, and the rev's
\* children see the string where they held the rev.
AliasNoWrite(k) ==
  /\ WritesOf(proc[k].rev) = {}
  /\ notified = <<>>
  /\ \A j \in (k + 1)..Len(proc) :
       proc[j].kind = "str" =>
         \A p \in 1..Len(proc[j].old.parents) :
           proc[j].old.parents[p] = proc[k].rev => proc[j].final.parents[p] = proc[k].str

\* C14 as stated: a string result s for rev means no write_commit for rev,
\* no callback, rev -> s in the revmap, s for rev in the parent list of every
\* later child, and every commit ref at rev reset to s by update_refs.
C14_AliasResult ==
  \A k \in Aliased :
    /\ AliasNoWrite(k)
    /\ proc[k].rev \in DOMAIN revmap
    /\ revmap[proc[k].rev] = proc[k].str
    /\ RefsDone =>
         \A i \in 1..Len(reflist) :
           refs0[reflist[i]] = CommitRefTo(proc[k].rev) =>
             \E c \in ResetsOf(reflist[i]) : cmds[c].to = CommitRefTo(proc[k].str)

\* C14 with the case the code sets apart: a string other than rev is
\* installed and the refs at rev are reset to it; the string rev itself
\* leaves the revmap without an entry for rev and the refs at rev alone.
C14_AliasResultOtherThanRev ==
  \A k \in Aliased :
    /\ AliasNoWrite(k)
    /\ IF proc[k].str # proc[k].rev
       THEN /\ proc[k].rev \in DOMAIN revmap
            /\ revmap[proc[k].rev] = proc[k].str
            /\ RefsDone =>
                 \A i \in 1..Len(reflist) :
                   refs0[reflist[i]] = CommitRefTo(proc[k].rev) =>
                     \E c \in ResetsOf(reflist[i]) : cmds[c].to = CommitRefTo(proc[k].str)
       ELSE /\ proc[k].rev \notin DOMAIN revmap
            /\ \A i \in 1..Len(reflist) :
                 refs0[reflist[i]] = CommitRefTo(proc[k].rev) => ResetsOf(reflist[i]) = {}

\* A commit aliased to its parent, a child of it aliased in turn, and a ref
\* at the commit reset to the parent.
C14_Witness ==
  \E k \in Aliased :
    /\ proc[k].str # proc[k].rev
    /\ \E j \in (k + 1)..Len(proc) :
         /\ proc[j].kind = "str"
         /\ proc[j].old.parents # <<>>
         /\ proc[j].old.parents[1] = proc[k].rev
         /\ proc[j].final.parents[1] = proc[k].str
    /\ RefsDone
    /\ refs0[TagRef] = CommitRefTo(proc[k].rev)
    /\ \E c \in ResetsOf(TagRef) : cmds[c].to = CommitRefTo(proc[k].str)

Paired == {k \in 1..Len(proc) : proc[k].kind = "tuple"}
NotifiedWith(h) == {n \in 1..Len(notified) : notified[n].newhash = h}

\* One write of the rev's final commit, and one call of the callback, made
\* after that write with the mark it returned.
WrittenThenNotified(k) ==
  /\ Cardinality(WritesOf(proc[k].rev)) = 1
  /\ \A i \in WritesOf(proc[k].rev) :
       /\ cmds[i].obj = proc[k].final
       /\ Cardinality(NotifiedWith(cmds[i].to.h)) = 1
       /\ \A n \in NotifiedWith(cmds[i].to.h) : notified[n].sent >= i

\* C15 as stated: whenever the commit filter returns a (Commit, callback)
\* pair, the commit is written and the callback then called exactly once with
\* the mark of that write: never before the write, never skipped.
C15_ReplaceAndNotify ==
  /\ \A k \in Paired : WrittenThenNotified(k)
  /\ Len(notified) = Cardinality(Paired)

\* C15 under the write decision: a pair whose Commit differs from the parsed
\* one is written and the callback then called exactly once with the mark of
\* that write; a pair whose Commit equals the parsed one is not written and
\* its callback is not called.
C15_ReplaceAndNotifyIfChanged ==
  /\ \A k \in Paired :
       IF Differs(proc[k].final, proc[k].old)
       THEN WrittenThenNotified(k)
       ELSE WritesOf(proc[k].rev) = {}
  /\ Len(notified) = Cardinality({k \in Paired : Differs(proc[k].final, proc[k].old)})

\* Two pairs written and notified, each callback with its own mark.
C15_Witness ==
  /\ Len(notified) = 2
  /\ notified[1].newhash # notified[2].newhash
  /\ \E k \in Paired : Differs(proc[k].final, proc[k].old) /\ WrittenThenNotified(k)

FilterCalls == {k \in 1..Len(proc) : proc[k].kind # "skip" /\ commit_filter # "none"}

\* C16: at every call of the commit filter the fourth argument is the parent
\* list of the commit as stored, in a list of its own that commit.parents
\* does not name, and it still is that list when the filter has returned,
\* whatever the remapping and the filter did to commit.parents.
C16_OriginalParents ==
  \A k \in FilterCalls :
    /\ proc[k].oldparents.passed = objects[proc[k].rev].parents
    /\ proc[k].oldparents.after = objects[proc[k].rev].parents
    /\ proc[k].oldparents.own

\* A merge of which one parent was remapped, its filter cutting
\* commit.parents down to the first.
C16_Witness ==
  \E k \in FilterCalls :
    /\ commit_filter = "alias"
    /\ Len(proc[k].oldparents.after) = 2
    /\ proc[k].final.parents # proc[k].old.parents

\* The refs of the list update_refs has dealt with.
RefsTaken == {reflist[i] : i \in 1..refidx}
Backup(ref) == BackupRef("refs/original", ref)

\* C17: for every ref of the list that names a commit whose hash is in the
\* revmap, update_refs issues, when a backup prefix is given, one reset of
\* the ref's name under the prefix to the old hash and, right after it, one
\* reset of the ref to the revmap's entry for the old hash; with no prefix
\* the second alone; a commit ref whose hash is not in the revmap gets no
\* reset and no backup.
C17_CommitRefUpdate ==
  \A ref \in RefsTaken :
    refs0[ref].kind = "commit" =>
      IF refs0[ref].h \in DOMAIN revmap
      THEN /\ Cardinality(ResetsOf(ref)) = 1
           /\ \A c \in ResetsOf(ref) :
                /\ cmds[c].to = CommitRefTo(revmap[refs0[ref].h])
                /\ IF backup_prefix # ""
                   THEN /\ ResetsOf(Backup(ref)) = {c - 1}
                        /\ cmds[c - 1].ref = BackupRef(backup_prefix, ref)
                        /\ cmds[c - 1].to = refs0[ref]
                   ELSE ResetsOf(Backup(ref)) = {}
      ELSE /\ ResetsOf(ref) = {}
           /\ ResetsOf(Backup(ref)) = {}

\* A branch moved to a mark with its backup kept, beside a lightweight tag
\* whose commit was not rewritten.
C17_Witness ==
  /\ RefsDone
  /\ backup_prefix # ""
  /\ refs0[MainRef].h \in DOMAIN revmap
  /\ IsMark(revmap[refs0[MainRef].h])
  /\ ResetsOf(Backup(MainRef)) # {}
  /\ refs0[TagRef].kind = "commit"
  /\ refs0[TagRef].h \notin DOMAIN revmap

TagWrites == {i \in 1..Len(cmds) : cmds[i].op = "tag"}

\* refs/tags/v1 names a tag object of that name on a commit.
AnnotatedTagTaken ==
  /\ TagRef \in RefsTaken
  /\ refs0[TagRef].kind = "tag"
  /\ TagRefName(tagobjs[refs0[TagRef].h].name) = TagRef
  /\ tagobjs[refs0[TagRef].h].object_type = "commit"

\* The backup of refs/tags/v1, where a prefix is given, directly before c.
BackupBefore(c) ==
  backup_prefix # "" =>
    /\ c > 1
    /\ cmds[c - 1] = ResetCmd(BackupRef(backup_prefix, TagRef), refs0[TagRef])

\* What the message filter and the tag filter make of a tag.
TagFiltered(tagobj) ==
  LET msged == IF msg_filter # "none" THEN [tagobj EXCEPT !.msg = ApplyMsgFilter(@)]
               ELSE tagobj
  IN IF tag_filter # "none" THEN TagFilterCall(msged) ELSE msged

\* C18: an annotated tag (its name that of its ref, its target a commit)
\* whose target is in the revmap is written anew, once: with no filter on
\* tags and messages the new tag has the original's tagger, tagger date and
\* name, the revmap's entry as its target and the original message cut before
\* the signature; with filters it is what they return for that tag.  Where a
\* backup prefix is given the backup ref is set to the original tag object
\* directly before the write.
C18_TagRewriteStripsSignature ==
  AnnotatedTagTaken /\ tagobjs[refs0[TagRef].h].object_hash \in DOMAIN revmap =>
    LET T == tagobjs[refs0[TagRef].h]
        cut == [T EXCEPT !.msg.sig = FALSE, !.object_hash = revmap[T.object_hash]]
    IN /\ Cardinality(TagWrites) = 1
       /\ \A c \in TagWrites :
            /\ cmds[c].obj = TagFiltered(cut)
            /\ msg_filter = "none" /\ tag_filter = "none" => cmds[c].obj = cut
            /\ BackupBefore(c)

\* A signed tag on a rewritten commit, written anew with no filter on tags
\* or messages and its backup kept.
C18_Witness ==
  /\ AnnotatedTagTaken
  /\ tagobjs[refs0[TagRef].h].msg.sig
  /\ tagobjs[refs0[TagRef].h].object_hash \in DOMAIN revmap
  /\ msg_filter = "none"
  /\ tag_filter = "none"
  /\ backup_prefix # ""
  /\ \E c \in TagWrites : ~cmds[c].obj.msg.sig /\ cmds[c - 1].op = "reset"

\* The tag of refs/tags/v1 as update_refs compares it: cut before the
\* signature, and what remapping and the filters make of that.
CutTag == [tagobjs[refs0[TagRef].h] EXCEPT !.msg.sig = FALSE]
NewTagOf(cut) ==
  TagFiltered(IF cut.object_hash \in DOMAIN revmap
              THEN [cut EXCEPT !.object_hash = revmap[@]] ELSE cut)

\* C19: for a ref that names a tag object, update_refs writes a tag (and,
\* where a backup prefix is given, sets the backup ref before) if and only if
\* the tag's name is that of the ref, its target is a commit, and the tag
\* after remapping and the filters differs in some field from the original
\* cut before its signature; in every other case no tag is written, no
\* backup set, and the ref still names the original tag object, signature
\* and all, when the call is over.
C19_TagRewrittenOnlyIfChanged ==
  TagRef \in RefsTaken /\ refs0[TagRef].kind = "tag" =>
    LET T == tagobjs[refs0[TagRef].h]
    IN IF /\ TagRefName(T.name) = TagRef
          /\ T.object_type = "commit"
          /\ \/ NewTagOf(CutTag).object_hash # CutTag.object_hash
             \/ NewTagOf(CutTag).tagger # CutTag.tagger
             \/ NewTagOf(CutTag).msg # CutTag.msg
       THEN /\ Cardinality(TagWrites) = 1
            /\ \A c \in TagWrites : cmds[c].obj = NewTagOf(CutTag) /\ BackupBefore(c)
       ELSE /\ TagWrites = {}
            /\ ResetsOf(Backup(TagRef)) = {}
            /\ ResetsOf(TagRef) = {}
            /\ pc \in {"rename", "return", "done"} => refs[TagRef] = refs0[TagRef]

\* A signed tag on a commit that was not rewritten, with no filter to change
\* it, in a call that rewrote other commits: left as it was.
C19_Witness ==
  /\ pc = "done"
  /\ refs0[TagRef].kind = "tag"
  /\ tagobjs[refs0[TagRef].h].msg.sig
  /\ tagobjs[refs0[TagRef].h].object_type = "commit"
  /\ tagobjs[refs0[TagRef].h].object_hash \notin DOMAIN revmap
  /\ CommitCmds # {}
  /\ TagWrites = {}
  /\ refs[TagRef] = refs0[TagRef]

\* ---- The revmap file ----

\* The file holds one line for each entry of the revmap, its value a hash.
CompleteRevmap(file) ==
  /\ file.exists
  /\ DOMAIN file.map = DOMAIN revmap
  /\ \A k \in DOMAIN revmap :
       /\ ~IsMark(file.map[k])
       /\ file.map[k] = get_mark(marks, revmap[k])

\* C20: with a revmap path given, the file at the path is as the call found
\* it until the rename, also where the call is left by an exception, and
\* from the rename on it is a complete file: one line for each entry of the
\* revmap, every mark resolved to a hash, all of them written and flushed
\* before the rename.
C20_AtomicRevmap ==
  revmap_filename # "" =>
    /\ pc \in {"loop", "refs", "revmap", "close", "rename", "aborted"} => revfile = file0
    /\ pc \in {"return", "done"} => CompleteRevmap(revfile)

\* ------------------------------------------------------------- edit claims
\* The last edit was remove_path(path) on treeref, called by rm.
Removing == tlast.op = "rm"

\* get_path found nothing at the path the last edit was handed.
WasAbsent == get_path(<<>>, tlast.pre, tlast.path) = None

\* C21: remove_path on a path at which get_path finds nothing (its first
\* segment absent, a later one absent, or a file met before the last segment)
\* raises nothing and returns the receiver itself, its children and hash as
\* they were.
C21_RemoveAbsentPath ==
  Removing /\ WasAbsent =>
    /\ ~tlast.raised
    /\ treeref = tlast.recv
    /\ View(theap, treeref) = tlast.pre

\* The paths the last edit wrote at, and paths neither of which leads to the
\* other.
Touched == IF tlast.op = "mv" THEN {tlast.from, tlast.path} ELSE {tlast.path}
Apart(p, q) == ~IsPrefix(p, q) /\ ~IsPrefix(q, p)

\* The dirty objects reachable from e, each with the path it is reached by.
RECURSIVE ObjPaths(_, _, _, _)
ObjPaths(h, e, at, d) ==
  IF ~IsObj(e) \/ d = 0 THEN {}
  ELSE {[path |-> at, obj |-> e.id]}
       \cup UNION {ObjPaths(h, h[e.id][n], Append(at, n), d - 1) : n \in DOMAIN h[e.id]}

SingleOwner ==
  \A r1, r2 \in ObjPaths(theap, treeref, <<>>, MaxNest) : r1.obj = r2.obj => r1.path = r2.path

\* C28: after any sequence of cp, mv, rm and addfile no dirty directory is
\* reachable from the root under two paths, and an edit changes nothing of
\* what get_path returns for a path that neither leads to a path the edit
\* wrote at nor lies below one.
C28_DirtySingleOwner ==
  /\ SingleOwner
  /\ \A q \in FixPaths :
       (\A p \in Touched : Apart(p, q)) =>
         get_path(<<>>, View(theap, treeref), q) = get_path(<<>>, tlast.pre, q)

\* ------------------------------------------------------------- cache claims
\* The key of a cache entry holds the path prefix of the directory.
Keyed(m) == m.prefix # NoPrefix

\* C23: every directory the caching transformer visits is cached under a key
\* that holds its path prefix exactly if the prefix-sensitive flag is set or
\* some rule's regex does not begin with '.*', at every depth and with either
\* regex module.
C23_KeyIncludesPrefix ==
  \A m \in gtt.mapping : Keyed(m) <=> (prefixSensitive \/ matchers_prefix_sensitive)

\* The directory above the one at prefix p.
Parent(p) == Path(SubSeq(p.segs, 1, Len(p.segs) - 1), TRUE)

\* Some rule whose regex does not begin with '.*' matches prefix p, in part or
\* in whole.
AnchoredRuleAt(p) ==
  \E i \in 1..Len(rules) :
    /\ ~StartsWithDotStar(rules[i].pat)
    /\ PartialMatch(regexMode, rules[i].pat, p) # "none"

\* C23, amended: the key of the root of every call, and without partial
\* matching every key, holds the prefix exactly if the flag is set or some
\* regex does not begin with '.*'.  With partial matching the key of a
\* directory below the root holds the prefix if the flag is set, and otherwise
\* only if a rule whose regex does not begin with '.*' matched the prefix of
\* the directory above it; it never does when every regex begins with '.*'.
C23_KeyByLiveRules ==
  /\ tcalls > 0 =>
       \E m \in gtt.mapping :
         /\ m.hash = troot
         /\ m.prefix = IF prefixSensitive \/ matchers_prefix_sensitive THEN RootPath
                        ELSE NoPrefix
  /\ \A m \in gtt.mapping :
       /\ prefixSensitive => Keyed(m)
       /\ ~prefixSensitive /\ ~matchers_prefix_sensitive => ~Keyed(m)
       /\ ~supports_partial(regexMode) =>
            (Keyed(m) <=> (prefixSensitive \/ matchers_prefix_sensitive))
       /\ supports_partial(regexMode) /\ Keyed(m) /\ m.prefix # RootPath =>
            prefixSensitive \/ AnchoredRuleAt(Parent(m.prefix))

\* With partial matching, the flag off and '/x' among the rules, a directory
\* two levels down has been cached under a key without its prefix.
C23_Witness ==
  /\ supports_partial(regexMode)
  /\ ~prefixSensitive
  /\ matchers_prefix_sensitive
  /\ \E m \in gtt.mapping : ~Keyed(m) /\ m.hash # troot
  /\ \E m \in gtt.mapping : Keyed(m) /\ m.prefix # RootPath

\* The (path, rule) pairs of a log of action invocations, in order.
Invocations(log) == [i \in 1..Len(log) |-> <<log[i].path, log[i].rule>>]

\* The first transform of troot as the re module computes it, every rule kept
\* at every level.
WithoutPartial == transform(Caching("re"), TState(NewTransformer, {}), troot)

\* C24: a transform computed with partial matching returns the tree, and makes
\* the action invocations in the order, of the transform computed without it.
C24_PartialIsOptimisation ==
  tcalls = 1 =>
    /\ tout = WithoutPartial.hash
    /\ Invocations(tlog) = Invocations(WithoutPartial.st.log)

\* The second of two calls, on root trees that differ and hold the same
\* directory a, under the one rule that deletes every file named x.
SecondOfSiblings ==
  /\ tcalls = 2
  /\ tcall.prev # troot
  /\ "a" \in DOMAIN troot.ents
  /\ "a" \in DOMAIN tcall.prev.ents
  /\ troot.ents["a"] = tcall.prev.ents["a"]
  /\ rules = <<[pat |-> PatSuffix("x", FALSE), act |-> "delete"]>>

\* The invocations the second call owes: one for the root's own file x, none
\* for the files below a, which the first call has dealt with.
OncePerBlob ==
  Invocations(tlog) = IF "x" \in DOMAIN troot.ents
                      THEN <<(<<Path(<<"x">>, FALSE), 1>>)>>
                      ELSE <<>>

\* C25: the second of two transforms on differing roots that share a subtree
\* invokes the delete action for no blob the first has seen, meets exactly one
\* cache hit, and writes no tree.
C25_SecondCommitNoWrite ==
  SecondOfSiblings =>
    /\ OncePerBlob
    /\ tcall.hits = 1
    /\ tcall.mktree = 0

\* C25, amended: the second transform invokes the delete action for no blob
\* the first has seen and meets exactly one cache hit; it writes no tree below
\* the root, and writes the root, with one write_tree request, exactly if the
\* tree it returns is not the tree it was handed.
C25_SecondCommitWritesRoot ==
  SecondOfSiblings =>
    /\ OncePerBlob
    /\ tcall.hits = 1
    /\ tcall.mktree = IF tout = troot THEN 0 ELSE 1

\* The shared directory holds a file x, which the first call deleted: the
\* second call invokes nothing and returns a tree that holds a without x.
C25_Witness ==
  /\ SecondOfSiblings
  /\ "x" \in DOMAIN troot.ents["a"].ents
  /\ tlog = <<>>
  /\ tcall.hits = 1
  /\ tcall.mktree = 1
  /\ "a" \in DOMAIN tout.ents
  /\ "x" \notin DOMAIN tout.ents["a"].ents

\* The tree _TreeTransformerBase computes for troot from scratch.
FromScratch == transform(Uncached(regexMode), TState(NewTransformer, {}), troot)

\* C29: whatever roots the caching transformer has been handed before, it
\* returns for a root the tree the uncached transformer computes for it.
C29_MemoTransparent == tcalls > 0 => tout = FromScratch.hash

\* ------------------------------------------------------------- revmap claims
\* The revmap this call of do_filter loaded.
Loaded == LoadRevmap(revmap_filename, file0)

\* A step of one call of do_filter: every step but the one that begins a call,
\* which makes a new revmap.
WithinCall == ~(pc \in {"idle", "done"} /\ pc' = "loop")

\* Every entry of revmap is kept, with its value.
EntriesKept == \A k \in DOMAIN revmap : k \in DOMAIN revmap' /\ revmap'[k] = revmap[k]

\* A commit that is a key of the loaded revmap is passed over: it is neither
\* parsed, filtered nor written, and its entry is the loaded one.
LoadedSkipped ==
  /\ \A k \in DOMAIN Loaded : pc # "idle" => k \in DOMAIN revmap /\ revmap[k] = Loaded[k]
  /\ \A i \in 1..Len(proc) : proc[i].rev \in DOMAIN Loaded => proc[i].kind = "skip"
  /\ \A i \in 1..Len(cmds) : cmds[i].op = "commit" => cmds[i].rev \notin DOMAIN Loaded

\* C26: within a call of do_filter the revmap only grows, no entry loaded from
\* the file or installed by the loop is ever removed or given another value,
\* and a commit that is a key of the loaded revmap is skipped, so its entry is
\* never written over.
C26_RevmapMonotone == [](LoadedSkipped) /\ [][WithinCall => EntriesKept]_vars

\* A second call has skipped a commit of the loaded revmap and installed an
\* entry of its own.
C26_Witness ==
  /\ run = 2
  /\ pc = "refs"
  /\ \E i \in 1..Len(proc) : proc[i].kind = "skip" /\ proc[i].rev \in DOMAIN Loaded
  /\ DOMAIN revmap # DOMAIN Loaded

\* ------------------------------------------------------------- parse claims
\* The name in the 'encoding' header among hs, "" where there is none.
RECURSIVE EncodingOf(_)
EncodingOf(hs) ==
  IF hs = <<>> THEN ""
  ELSE IF Head(hs).kind = "encoding" THEN Head(hs).str
  ELSE EncodingOf(Tail(hs))

\* A message written in another encoding, decoded with undecodable bytes
\* replaced and encoded as UTF-8: other bytes than it was stored with.
Utf8(msg, encoding) ==
  IF encoding \in {"", "UTF-8"} THEN msg
  ELSE [n |-> msg.n, sig |-> msg.sig, utf8 |-> TRUE]

\* C27: parse_commit of a stored commit raises nothing, whatever gpgsig
\* headers and continuation lines it holds, and returns the message as stored
\* where the commit has no encoding header and re-encoded to UTF-8 where it
\* has one, wherever that header sits.
C27_MessageReencoded ==
  \A i \in GwCalls("get_commit") :
    gwlog[i].asked /\ Stored(gwlog[i].key) /\ catfile[gwlog[i].key].kind = "commit" =>
      /\ ~gwlog[i].out.raised
      /\ gwlog[i].out.commit.msg =
           Utf8(catfile[gwlog[i].key].response.msg,
                EncodingOf(catfile[gwlog[i].key].response.headers))

\* ---- close claims ----

Closing == fmstate \in {"closed", "raised"}

\* C22: when FilterManager.close() has run, every child had its stdin closed
\* and was waited for, the import channel was sent the reset of the temporary
\* ref and then 'done', and close() raised exactly if some child exited with
\* a nonzero status.
C22_CloseReachesEveryChild ==
  Closing =>
    /\ \A c \in DOMAIN procs : procs[c].stdin = "closed" /\ procs[c].waited
    /\ procs.import.sent = <<"reset", "done">>
    /\ (fmstate = "raised") = (\E c \in DOMAIN procs : procs[c].returncode # 0)

\* ---- channel claims ----

\* What was read in exchange i is the answer to request i and nothing else.
OwnAnswer(i) ==
  /\ reads[i].stale = <<>>
  /\ \A j \in DOMAIN reads[i].got :
       reads[i].got[j].req = reads[i].req /\ reads[i].got[j].key = reads[i].key
  /\ reads[i].left = <<>>
  /\ reads[i].outcome # "hang" =>
       reads[i].got = IF reads[i].ch = "cat"
                      THEN CatFileAnswer(catfile, reads[i].key, reads[i].req)
                      ELSE LineAnswer(reads[i].key, reads[i].req)

\* C30: on each channel a request is written only when nothing of an earlier
\* answer is left in the pipe, and what is read for a request is the whole of
\* the child's answer to that request, also after a read that raised.
C30_LockStep ==
  /\ \A i \in DOMAIN reads : OwnAnswer(i)
  /\ fmstate # "hung" => \A c \in DOMAIN pipes : pipes[c] = <<>>

\* A read of the reader channel raised, a later one on the same channel
\* returned an object, and another channel was used as well.
C30_Witness ==
  /\ \E i, j \in DOMAIN reads :
       /\ i < j
       /\ reads[i].ch = "cat" /\ reads[i].outcome = "raise"
       /\ reads[j].ch = "cat" /\ reads[j].outcome = "read"
  /\ \E k \in DOMAIN reads : reads[k].ch # "cat"

====
